---- MODULE Spec2Model ----
(***************************************************************************)
(* Model of samsonovych/revitalize-permits-scraper: the permit             *)
(* post-processing pipeline (permits_post_processing), and the result      *)
(* files, date chunking and progress accounting of the scrapers and their  *)
(* runners (permits_scraper).                                              *)
(*                                                                         *)
(* Python strings are sequences of one-character strings, so that          *)
(* lower(), strip(), str() and the separator join are computed rather      *)
(* than assumed.  A DataFrame is a sequence of rows (records); a row's     *)
(* index label is carried in the field "idx".                              *)
(***************************************************************************)
EXTENDS Integers, Sequences, FiniteSets, TLC

VARIABLES
    proc,      \* the entry point called: a processor ("el_paso" | "austin" | "arlington"),
               \* a function by its name, "persist_result" or "runner"
    pc,        \* position of the call in flight: "start", "persist" | "writing" (the
               \* final write), "done" | "raised" | "write_failed"; "run" while workers run
    values,    \* argument of BasePostProcessor.concatenate_values
    merged,    \* its return value
    input,     \* the DataFrame handed to process()
    now,       \* pd.to_datetime("now"), as a day number
    output,    \* the DataFrame returned by process()
    columns,   \* df.columns of the caller's DataFrame
    output_path, \* the output_path argument of process(): None or a path
    disk,      \* the files of the output directory, and the log of the files opened for writing
    workers,   \* one record of local variables per concurrent worker or writer
    overall_bar \* the tqdm bar shared by the workers: [n, total]

vars == <<proc, pc, values, merged, input, now, output, columns, output_path, disk, workers, overall_bar>>


----------------------------------------------------------------------------
(* Null values of a DataFrame cell.  NaN is numpy.nan, None is Python's None.   *)
(* A null is a one-element tuple whose element is no character, so it differs *)
(* from every string and can be compared with one.                            *)
NaN == <<"numpy.nan">>
None == <<"NoneType">>
NaT == <<"pandas.NaT">>
Nulls == {NaN, None, NaT}
isna(v) == v \in Nulls
notna(v) == ~isna(v)

SeqsUpTo(S, n) == UNION { [1..k -> S] : k \in 0..n }

NoTable == <<>>

(* The variables of the file writes and of the scraper workers, in a run    *)
(* that has no output path and no worker.                                   *)
NoDisk == [files |-> <<>>, opened |-> <<>>]
NoBar == [n |-> 0, total |-> 0]
NoWrite == output_path = None /\ disk = NoDisk
NoWorkers == workers = <<>> /\ overall_bar = NoBar

(* Bounds of the model. *)
MaxGroup == 3
MaxRows == 2

----------------------------------------------------------------------------
(* Strings. *)
UpperAlpha == <<"A","B","C","D","E","F","G","H","I","J","K","L","M",
                "N","O","P","Q","R","S","T","U","V","W","X","Y","Z">>
LowerAlpha == <<"a","b","c","d","e","f","g","h","i","j","k","l","m",
                "n","o","p","q","r","s","t","u","v","w","x","y","z">>
Digits == <<"0","1","2","3","4","5","6","7","8","9">>
Whitespace == {" ", "\n", "\t"}

InSeq(c, s) == \E i \in DOMAIN s : s[i] = c
IndexOf(c, s) == CHOOSE i \in DOMAIN s : s[i] = c

LowerChar(c) == IF InSeq(c, UpperAlpha) THEN LowerAlpha[IndexOf(c, UpperAlpha)] ELSE c
UpperChar(c) == IF InSeq(c, LowerAlpha) THEN UpperAlpha[IndexOf(c, LowerAlpha)] ELSE c
IsAlpha(c) == InSeq(c, UpperAlpha) \/ InSeq(c, LowerAlpha)
IsDigit(c) == InSeq(c, Digits)

(* str.lower() *)
Lower(s) == [i \in DOMAIN s |-> LowerChar(s[i])]

(* str.title(): a letter is upper-cased after a non-letter, lower-cased after a letter *)
Title(s) == [i \in DOMAIN s |->
               IF i = 1 \/ ~IsAlpha(s[i - 1]) THEN UpperChar(s[i]) ELSE LowerChar(s[i])]

RECURSIVE LStrip(_)
LStrip(s) == IF s # <<>> /\ Head(s) \in Whitespace THEN LStrip(Tail(s)) ELSE s

RECURSIVE RStrip(_)
RStrip(s) == IF s # <<>> /\ s[Len(s)] \in Whitespace
             THEN RStrip(SubSeq(s, 1, Len(s) - 1)) ELSE s

(* str.strip() *)
Strip(s) == RStrip(LStrip(s))

(* str(n) of a non-negative integer *)
RECURSIVE IntToStr(_)
IntToStr(n) == IF n < 10 THEN <<Digits[n + 1]>>
               ELSE IntToStr(n \div 10) \o <<Digits[(n % 10) + 1]>>

(* sep.join(parts) *)
RECURSIVE Join(_, _)
Join(sep, parts) ==
    IF parts = <<>> THEN <<>>
    ELSE IF Len(parts) = 1 THEN parts[1]
    ELSE parts[1] \o sep \o Join(sep, Tail(parts))

StartsWith(s, p) == Len(s) >= Len(p) /\ SubSeq(s, 1, Len(p)) = p

----------------------------------------------------------------------------
(* BasePostProcessor.concatenate_values *)
SEP == <<" ", "\n", "\n", "<", "A", "N", "D", ">", " ">>

(* str(v) of a cell: a string is itself, numpy.nan is 'nan', None is 'None' *)
PyStr(v) == IF v = NaN THEN <<"n","a","n">>
            ELSE IF v = None THEN <<"N","o","n","e">>
            ELSE IF v = NaT THEN <<"N","a","T">>
            ELSE v

concatenate_values_dedup(vals) ==
    IF \A i \in DOMAIN vals : isna(vals[i]) THEN <<>>
    ELSE LET keep == SelectSeq([i \in DOMAIN vals |-> <<i, vals[i]>>],
                               LAMBDA p : \A j \in 1..(p[1] - 1) : vals[j] # p[2])
         IN Join(SEP, [i \in DOMAIN keep |-> PyStr(keep[i][2])])

concatenate_values(vals) ==
    IF \A i \in DOMAIN vals : isna(vals[i]) THEN <<>>
    ELSE Join(SEP, [i \in DOMAIN vals |-> PyStr(vals[i])])

----------------------------------------------------------------------------
(* Specification of a single concatenate_values call on one group's column. *)
CellValues == Nulls \cup { <<"a">>, <<"b", "c">>, <<"n","a","n">> }

InitConcat ==
    /\ proc = "concat"
    /\ pc = "start"
    /\ values \in SeqsUpTo(CellValues, MaxGroup)
    /\ merged = None
    /\ input = NoTable
    /\ now = 0
    /\ output = NoTable
    /\ columns = {}
    /\ NoWrite /\ NoWorkers

Concatenate ==
    /\ proc = "concat"
    /\ pc = "start"
    /\ merged' = concatenate_values(values)
    /\ pc' = "done"
    /\ UNCHANGED <<proc, values, input, now, output, columns, output_path, disk, workers, overall_bar>>

NextConcat == Concatenate

SpecConcat == InitConcat /\ [][NextConcat]_vars

----------------------------------------------------------------------------
(* Dates.  A date cell of the input is text 'MM/DD/YYYY'; a parsed date is   *)
(* the triple <<year, month, day>>; a day number is the proleptic Gregorian   *)
(* ordinal, so that a difference of two dates is a number of days.            *)
DaysBeforeMonth == <<0, 31, 59, 90, 120, 151, 181, 212, 243, 273, 304, 334>>
DaysInMonth == <<31, 28, 31, 30, 31, 30, 31, 31, 30, 31, 30, 31>>
IsLeap(y) == y % 4 = 0 /\ (y % 100 # 0 \/ y % 400 = 0)

Ordinal(ymd) ==
    LET y == ymd[1]
        m == ymd[2]
        d == ymd[3]
    IN 365 * (y - 1) + ((y - 1) \div 4) - ((y - 1) \div 100) + ((y - 1) \div 400)
       + DaysBeforeMonth[m] + (IF m > 2 /\ IsLeap(y) THEN 1 ELSE 0) + d

RECURSIVE StrToInt(_)
StrToInt(s) == IF s = <<>> THEN 0
               ELSE 10 * StrToInt(SubSeq(s, 1, Len(s) - 1)) + (IndexOf(s[Len(s)], Digits) - 1)

AllDigits(s) == \A i \in DOMAIN s : IsDigit(s[i])

(* the text is a calendar date written month/day/year *)
IsDateText(s) ==
    /\ Len(s) = 10
    /\ s[3] = "/" /\ s[6] = "/"
    /\ AllDigits(SubSeq(s, 1, 2)) /\ AllDigits(SubSeq(s, 4, 5)) /\ AllDigits(SubSeq(s, 7, 10))
    /\ LET m == StrToInt(SubSeq(s, 1, 2))
           d == StrToInt(SubSeq(s, 4, 5))
           y == StrToInt(SubSeq(s, 7, 10))
       IN /\ m \in 1..12
          /\ y >= 1
          /\ d >= 1
          /\ d <= DaysInMonth[m] + (IF m = 2 /\ IsLeap(y) THEN 1 ELSE 0)

(* pd.to_datetime of one parseable cell *)
ParseDate(s) == <<StrToInt(SubSeq(s, 7, 10)), StrToInt(SubSeq(s, 1, 2)), StrToInt(SubSeq(s, 4, 5))>>

(* pd.to_datetime(column) with errors='raise': raises on a non-null cell that is no date *)
ToDatetimeRaises(cells) == \E i \in DOMAIN cells : notna(cells[i]) /\ ~IsDateText(cells[i])

Pad2(n) == IF n < 10 THEN <<"0">> \o IntToStr(n) ELSE IntToStr(n)
RECURSIVE PadTo(_, _)
PadTo(s, w) == IF Len(s) >= w THEN s ELSE PadTo(<<"0">> \o s, w)

(* .dt.strftime('%d/%m/%Y') *)
StrfDMY(ymd) == Pad2(ymd[3]) \o <<"/">> \o Pad2(ymd[2]) \o <<"/">> \o PadTo(IntToStr(ymd[1]), 4)

(* (pd.to_datetime("now") - date).dt.days for a date at midnight *)
DaysSince(today, ymd) == today - Ordinal(ymd)

----------------------------------------------------------------------------
(* Derived-field computer: pd.cut(days, bins=bins, labels=labels), right-closed. *)
recently_issued == <<"r","e","c","e","n","t","l","y","_","i","s","s","u","e","d">>
primary_backlog == <<"p","r","i","m","a","r","y","_","b","a","c","k","l","o","g">>

bins == <<-1, 90, 180>>
labels == <<recently_issued, primary_backlog>>

(* pd.cut(days, bins, labels): the intervals are closed on the right *)
cut(days, bs, ls) ==
    IF \E i \in DOMAIN ls : bs[i] < days /\ days <= bs[i + 1]
    THEN ls[CHOOSE i \in DOMAIN ls : bs[i] < days /\ days <= bs[i + 1]]
    ELSE NaN

----------------------------------------------------------------------------
(* Contact extractor of the El Paso processor: a free-text block to name and *)
(* phone fields.                                                             *)

(* str.split(sep), scanned from the left *)
RECURSIVE SplitFrom(_, _, _)
SplitFrom(s, sep, cur) ==
    IF s = <<>> THEN <<cur>>
    ELSE IF StartsWith(s, sep)
         THEN <<cur>> \o SplitFrom(SubSeq(s, Len(sep) + 1, Len(s)), sep, <<>>)
         ELSE SplitFrom(Tail(s), sep, cur \o <<Head(s)>>)
SplitOn(s, sep) == SplitFrom(s, sep, <<>>)

(* str.split(): the maximal runs of non-whitespace characters *)
RECURSIVE SplitWordsFrom(_, _)
SplitWordsFrom(s, cur) ==
    IF s = <<>> THEN (IF cur = <<>> THEN <<>> ELSE <<cur>>)
    ELSE IF Head(s) \in Whitespace
         THEN (IF cur = <<>> THEN <<>> ELSE <<cur>>) \o SplitWordsFrom(Tail(s), <<>>)
         ELSE SplitWordsFrom(Tail(s), cur \o <<Head(s)>>)
SplitWords(s) == SplitWordsFrom(s, <<>>)

_split_lines(text) ==
    IF isna(text) \/ text = <<>> THEN <<>>
    ELSE LET raw == SplitOn(text, <<"\n">>)
         IN SelectSeq([i \in DOMAIN raw |-> Strip(raw[i])], LAMBDA ln : ln # <<>>)

(* re.match('^' + prefix, ln, re.I) *)
MatchCI(ln, prefix) ==
    Len(ln) >= Len(prefix) /\ Lower(SubSeq(ln, 1, Len(prefix))) = Lower(prefix)

PhonePrefixes == { <<"P","h","o","n","e">>,
                   <<"W","o","r","k"," ","P","h","o","n","e">>,
                   <<"M","o","b","i","l","e"," ","P","h","o","n","e">>,
                   <<"H","o","m","e"," ","P","h","o","n","e">>,
                   <<"E","m","a","i","l">>,
                   <<"E","-","m","a","i","l">> }
ContractorGeneral == <<"C","o","n","t","r","a","c","t","o","r"," ","G","e","n","e","r","a","l">>
LCCR == <<"L","C","C","R">>

IsLabelLine(ln) == \E p \in PhonePrefixes : MatchCI(ln, p)

(* re.search of the e-mail pattern [A-Za-z0-9._%+-]+@[A-Za-z0-9.-]+\.[A-Za-z]{2,} *)
IsAlnum(c) == IsAlpha(c) \/ IsDigit(c)
EmailLocalChar(c) == IsAlnum(c) \/ c \in {".", "_", "%", "+", "-"}
EmailDomainChar(c) == IsAlnum(c) \/ c \in {".", "-"}
HasEmail(s) ==
    \E a \in 2..Len(s) :
        /\ s[a] = "@"
        /\ EmailLocalChar(s[a - 1])
        /\ \E d \in (a + 2)..(Len(s) - 2) :
              /\ s[d] = "."
              /\ \A j \in (a + 1)..(d - 1) : EmailDomainChar(s[j])
              /\ IsAlpha(s[d + 1]) /\ IsAlpha(s[d + 2])

(* the lines of the block kept for name, company and address *)
address_lines(text) ==
    SelectSeq(_split_lines(text),
              LAMBDA ln : /\ ~StartsWith(ln, ContractorGeneral)
                          /\ ~StartsWith(ln, LCCR)
                          /\ ~IsLabelLine(ln)
                          /\ ~HasEmail(ln))

_split_name_company(lines) ==
    IF lines = <<>> THEN [first_name |-> None, last_name |-> None, company |-> None, rest |-> <<>>]
    ELSE LET name_tokens == SplitWords(lines[1])
             second_is_company ==
                 /\ Len(lines) > 1
                 /\ ~IsLabelLine(lines[2])
                 /\ ~MatchCI(lines[2], ContractorGeneral)
                 /\ ~MatchCI(lines[2], LCCR)
         IN [first_name |-> IF Len(name_tokens) >= 1 THEN Title(name_tokens[1]) ELSE None,
             last_name |-> IF Len(name_tokens) >= 2
                           THEN Title(Join(<<" ">>, Tail(name_tokens))) ELSE None,
             company |-> IF second_is_company THEN lines[2] ELSE None,
             rest |-> IF second_is_company THEN SubSeq(lines, 3, Len(lines))
                      ELSE SubSeq(lines, 2, Len(lines))]

(* the character class [0-9\-\(\)\s] *)
PhoneClassChar(c) == IsDigit(c) \/ c \in {"-", "(", ")"} \/ c \in Whitespace

RECURSIVE ClassRun(_, _)
ClassRun(s, i) == IF i <= Len(s) /\ PhoneClassChar(s[i]) THEN <<s[i]>> \o ClassRun(s, i + 1) ELSE <<>>

(* re.search(label + '\s*([0-9\-\(\)\s]+)', s, re.I) then re.sub('\D', '', group): *)
(* the leftmost occurrence of the label that a class character follows            *)
LabelMatches(s, label) ==
    { p \in 1..Len(s) :
        /\ p + Len(label) <= Len(s)
        /\ Lower(SubSeq(s, p, p + Len(label) - 1)) = Lower(label)
        /\ PhoneClassChar(s[p + Len(label)]) }

Min(S) == CHOOSE x \in S : \A y \in S : x <= y

PhoneAfter(text, label) ==
    LET s == IF isna(text) THEN <<>> ELSE text
    IN IF LabelMatches(s, label) = {} THEN None
       ELSE LET p == Min(LabelMatches(s, label))
                digits == SelectSeq(ClassRun(s, p + Len(label)), IsDigit)
            IN IF digits = <<>> THEN None ELSE digits

_extract_phones(text) ==
    [home |-> PhoneAfter(text, <<"H","o","m","e"," ","P","h","o","n","e",":">>),
     work |-> PhoneAfter(text, <<"W","o","r","k"," ","P","h","o","n","e",":">>),
     mobile |-> PhoneAfter(text, <<"M","o","b","i","l","e"," ","P","h","o","n","e",":">>),
     phone |-> PhoneAfter(text, <<"P","h","o","n","e",":">>)]

(* p.strip(", "): commas and blanks removed at both ends *)
RECURSIVE LStripChars(_, _)
LStripChars(s, chars) ==
    IF s # <<>> /\ Head(s) \in chars THEN LStripChars(Tail(s), chars) ELSE s
RECURSIVE RStripChars(_, _)
RStripChars(s, chars) ==
    IF s # <<>> /\ s[Len(s)] \in chars THEN RStripChars(SubSeq(s, 1, Len(s) - 1), chars) ELSE s
StripChars(s, chars) == RStripChars(LStripChars(s, chars), chars)

(* re.sub(r"\s+", " ", s): every run of whitespace becomes one blank *)
RECURSIVE CollapseWhitespace(_)
CollapseWhitespace(s) ==
    IF s = <<>> THEN <<>>
    ELSE IF Head(s) \in Whitespace
         THEN <<" ">> \o CollapseWhitespace(LStrip(s))
         ELSE <<Head(s)>> \o CollapseWhitespace(Tail(s))

(* lines 125-130 *)
_normalize_address(lines) ==
    IF lines = <<>> THEN None
    ELSE LET addr == Strip(CollapseWhitespace(
                         Join(<<",", " ">>,
                              [i \in DOMAIN lines |-> StripChars(lines[i], {",", " "})])))
         IN IF addr = <<>> THEN None ELSE Lower(addr)

_parse_contact_block(text) ==
    LET nc == _split_name_company(address_lines(text))
        phones == _extract_phones(text)
    IN [first_name |-> nc.first_name,
        last_name |-> nc.last_name,
        company |-> nc.company,
        address |-> _normalize_address(nc.rest),
        phone |-> phones.phone,
        work |-> phones.work,
        mobile |-> phones.mobile,
        home |-> phones.home]

(* The blocks the runs below draw their inputs from, parsed once: TLC keeps *)
(* the value of a constant definition, so a block of this table is not      *)
(* parsed again in every state.  ParseBlock(b) = _parse_contact_block(b).   *)
PhoneLine == <<"P","h","o","n","e",":"," ","9","1","5","-","5","5","5","-","0","1","0","1">>
BlkPhoneOnly == PhoneLine
BlkAnnLee == <<"A","n","n"," ","L","e","e","\n">> \o PhoneLine
BlkBob == <<"B","O","B","\n">> \o PhoneLine
BlkCyOrr == <<"c","y"," "," ","O","R","R">>
BlkAnnLeeUpper == <<"A","N","N"," ","L","E","E">>
KnownBlocks == {NaN, BlkPhoneOnly, BlkAnnLee, BlkBob, BlkCyOrr, BlkAnnLeeUpper}
ParsedBlocks == [b \in KnownBlocks |-> _parse_contact_block(b)]
ParseBlock(b) == IF b \in KnownBlocks THEN ParsedBlocks[b] ELSE _parse_contact_block(b)

(* Python's `a or b` on Optional[str] *)
Or(a, b) == IF isna(a) \/ a = <<>> THEN b ELSE a

----------------------------------------------------------------------------
(* ElPasoDefaultPostProcessor.process, stage by stage.  A table is a         *)
(* sequence of rows; "idx" is the row's index label (the RangeIndex of the   *)
(* DataFrame built from out_rows, kept by every filter).                     *)

(* The value of a one-element set.  A stage below is written              *)
(*     TheOne({ <new table> : t \in {<previous table>} })                 *)
(* so that the previous table is computed once and named t.               *)
TheOne(S) == CHOOSE x \in S : TRUE

NoneToNaN(v) == IF isna(v) THEN NaN ELSE v
EmptyToNaN(v) == IF v = <<>> THEN NaN ELSE v
StrLower(v) == IF isna(v) THEN NaN ELSE Lower(v)
Fillna(a, b) == IF isna(a) THEN b ELSE a

(* lines 171-224: one output row per input row, None replaced by NaN *)
ElPasoExtractRow(r, label) ==
    TheOne({
       [idx |-> label,
        permit_number |-> NoneToNaN(r.permit_number),
        record_type |-> NoneToNaN(r.record_type),
        status |-> NoneToNaN(r.status),
        application_date |-> NoneToNaN(r.application_date),
        applicant_first_name |-> NoneToNaN(app.first_name),
        applicant_last_name |-> NoneToNaN(app.last_name),
        applicant_phone |-> NoneToNaN(app.phone),
        applicant_work_phone |-> NoneToNaN(app.work),
        applicant_mobile_phone |-> NoneToNaN(app.mobile),
        licensed_professional_first_name |-> NoneToNaN(lic.first_name),
        licensed_professional_last_name |-> NoneToNaN(lic.last_name),
        licensed_professional_home_phone_number |-> NoneToNaN(Or(lic.home, lic.phone)),
        licensed_professional_mobile_phone_number |-> NoneToNaN(Or(lic.mobile, Or(lic.home, lic.phone))),
        owner_first_name |-> NoneToNaN(r.owner_first_name),
        owner_last_name |-> NoneToNaN(r.owner_last_name),
        third_party_first_name |-> NoneToNaN(tp.first_name),
        third_party_last_name |-> NoneToNaN(tp.last_name),
        third_party_phone_number |-> NoneToNaN(Or(tp.phone, tp.home)),
        third_party_mobile_phone_number |-> NoneToNaN(Or(tp.mobile, Or(tp.phone, tp.home)))] :
       app \in {ParseBlock(r.applicant)},
       lic \in {ParseBlock(r.licensed_professional)},
       tp \in {ParseBlock(r.third_party)} })

ElPasoExtracted(df) == [i \in DOMAIN df |-> ElPasoExtractRow(df[i], i - 1)]

(* lines 226-227 *)
ElPasoLowered(df) ==
    TheOne({ [i \in DOMAIN t |-> [t[i] EXCEPT !.status = StrLower(@), !.record_type = StrLower(@)]] :
             t \in {ElPasoExtracted(df)} })

include_record_types ==
    { <<"r","e","s","i","d","e","n","t","i","a","l"," ","n","e","w">>,
      <<"3","r","d"," ","p","a","r","t","y"," ","r","e","s","i","d","e","n","t","i","a","l"," ","n","e","w">> }

(* lines 229-230 *)
ElPasoTyped(df) == SelectSeq(ElPasoLowered(df), LAMBDA r : r.record_type \in include_record_types)

(* line 232: pd.to_datetime without errors='coerce' *)
ElPasoRaises(df) ==
    \E t \in {ElPasoTyped(df)} : ToDatetimeRaises([i \in DOMAIN t |-> t[i].application_date])

(* lines 232-233 *)
ElPasoDated(df) ==
    TheOne({ [i \in DOMAIN t |-> [t[i] EXCEPT !.application_date = ParseDate(@)]] :
             t \in {SelectSeq(ElPasoTyped(df), LAMBDA r : notna(r.application_date))} })

StringCols ==
    {"permit_number", "record_type", "status",
     "applicant_first_name", "applicant_last_name",
     "applicant_phone", "applicant_work_phone", "applicant_mobile_phone",
     "licensed_professional_first_name", "licensed_professional_last_name",
     "licensed_professional_home_phone_number", "licensed_professional_mobile_phone_number",
     "owner_first_name", "owner_last_name",
     "third_party_first_name", "third_party_last_name",
     "third_party_phone_number", "third_party_mobile_phone_number"}

PhoneCols ==
    {"applicant_phone", "applicant_work_phone", "applicant_mobile_phone",
     "licensed_professional_home_phone_number", "licensed_professional_mobile_phone_number",
     "third_party_phone_number", "third_party_mobile_phone_number"}

(* line 236 *)
ElPasoBlanked(df) ==
    TheOne({ [i \in DOMAIN t |->
                [c \in DOMAIN t[i] |-> IF c \in StringCols THEN EmptyToNaN(t[i][c]) ELSE t[i][c]]] :
             t \in {ElPasoDated(df)} })

(* lines 238-242 *)
ElPasoPhoned(df) ==
    SelectSeq(ElPasoBlanked(df), LAMBDA r : \E c \in PhoneCols : notna(r[c]))

(* lines 244-248 *)
ElPasoBucketed(df, today) ==
    TheOne({ [i \in DOMAIN t |->
                [days_since_filling |-> DaysSince(today, t[i].application_date),
                 bucket |-> cut(DaysSince(today, t[i].application_date), bins, labels)]
                @@ [t[i] EXCEPT !.application_date = StrfDMY(@)]] :
             t \in {ElPasoPhoned(df)} })

(* lines 249-250 *)
ElPasoSurvivors(df, today) ==
    SelectSeq(ElPasoBucketed(df, today), LAMBDA r : notna(r.bucket) /\ notna(r.status))

(* lines 252-259, for one row *)
pair_key_raw(r, first_col, last_col) ==
    IF notna(r[first_col]) /\ notna(r[last_col]) THEN r[first_col] \o r[last_col] ELSE NaN

pair_key(r, first_col, last_col) ==
    LET first_name == IF isna(r[first_col]) THEN NaN ELSE Strip(r[first_col])
        last_name == IF isna(r[last_col]) THEN NaN ELSE Strip(r[last_col])
    IN IF notna(first_name) /\ notna(last_name)
       THEN Lower(first_name) \o <<"|">> \o Lower(last_name)
       ELSE NaN

group_key_owner_first(r) ==
    Fillna(Fillna(Fillna(pair_key(r, "owner_first_name", "owner_last_name"),
                         pair_key(r, "third_party_first_name", "third_party_last_name")),
                  pair_key(r, "licensed_professional_first_name", "licensed_professional_last_name")),
           pair_key(r, "applicant_first_name", "applicant_last_name"))

(* lines 261-265 *)
group_key(r) ==
    Fillna(Fillna(Fillna(pair_key(r, "applicant_first_name", "applicant_last_name"),
                         pair_key(r, "licensed_professional_first_name", "licensed_professional_last_name")),
                  pair_key(r, "third_party_first_name", "third_party_last_name")),
           pair_key(r, "owner_first_name", "owner_last_name"))

(* lines 268-269 *)
UNGROUPED == <<"U","N","G","R","O","U","P","E","D","_">>
fallback_no_index(r) == UNGROUPED
fallback(r) == UNGROUPED \o IntToStr(r.idx)

(* line 272 *)
group_key_final(r) == Fillna(group_key(r), fallback(r))

ElPasoKeyed(df, today) ==
    TheOne({ [i \in DOMAIN t |-> [group_key_final |-> group_key_final(t[i])] @@ t[i]] :
             t \in {ElPasoSurvivors(df, today)} })

----------------------------------------------------------------------------
(* Aggregator: DataFrame.groupby(key, sort=...).agg(...).reset_index()       *)

(* str(n) of an integer cell *)
PyStrInt(n) == IF n < 0 THEN <<"-">> \o IntToStr(0 - n) ELSE IntToStr(n)

(* Python's order on strings of ASCII digits, letters and punctuation is    *)
(* needed only on keys made of digits: the order of their characters.       *)
CharRank(c) == IF IsDigit(c) THEN IndexOf(c, Digits) ELSE 0
RECURSIVE StrLess(_, _)
StrLess(a, b) ==
    IF b = <<>> THEN FALSE
    ELSE IF a = <<>> THEN TRUE
    ELSE IF Head(a) = Head(b) THEN StrLess(Tail(a), Tail(b))
    ELSE CharRank(Head(a)) < CharRank(Head(b))

(* the distinct keys of the table in order of first appearance *)
KeysFirstSeen(t, key_col) ==
    TheOne({ [n \in DOMAIN firsts |-> t[firsts[n]][key_col]] :
             firsts \in {SelectSeq([i \in DOMAIN t |-> i],
                                   LAMBDA i : \A j \in 1..(i - 1) : t[j][key_col] # t[i][key_col])} })


(* the group keys in the order groupby iterates them *)
GroupKeys(t, key_col, sort) ==
    IF sort THEN SortSeq(KeysFirstSeen(t, key_col), StrLess) ELSE KeysFirstSeen(t, key_col)

(* one output row: concatenate_values per column, count of permit_count *)
AggregateGroup_first(g, cols) ==
    [c \in cols |-> PyStr(g[1][c])]
    @@ [permit_count |-> 1, members |-> <<g[1].idx>>]

AggregateGroup(g, cols) ==
    [c \in cols |-> concatenate_values([i \in DOMAIN g |-> g[i][c]])]
    @@ [permit_count |-> Len(g), members |-> [i \in DOMAIN g |-> g[i].idx]]

GroupByAgg(t, key_col, sort, cols) ==
    TheOne({ [n \in DOMAIN keys |->
                TheOne({ AggregateGroup(g, cols) :
                         g \in {SelectSeq(t, LAMBDA r : r[key_col] = keys[n])} })] :
             keys \in {GroupKeys(t, key_col, sort)} })

(* lines 277-282 *)
ElPasoAggCols == StringCols \cup {"application_date", "days_since_filling", "bucket"}

(* the cell as str() sees it: the integer day count prints as its digits *)
ElPasoCells(df, today) ==
    TheOne({ [i \in DOMAIN t |-> [t[i] EXCEPT !.days_since_filling = PyStrInt(@)]] :
             t \in {ElPasoKeyed(df, today)} })

ElPasoResult(df, today) ==
    TheOne({ GroupByAgg(t, "group_key_final", FALSE, ElPasoAggCols) : t \in {ElPasoCells(df, today)} })

(* lines 61-74: the columns process needs and sets, on the caller's df, when absent *)
ElPasoNeededInputs ==
    {"permit_number", "applicant", "licensed_professional", "third_party", "owner.address",
     "owner.company_name", "owner.first_name", "owner.last_name", "job_value"}

(* the columns of a scraped El Paso table *)
ElPasoInputCols == ElPasoNeededInputs \cup {"record_type", "status", "application_date"}

(* lines 285-292, and the same test in the other two processors *)
AfterStages == IF output_path = None THEN "done" ELSE "persist"

(* the call up to its last stage: it raises from pd.to_datetime or holds the *)
(* grouped table, which it returns at once when there is no output path.     *)
(* df[c] = None (line 74) adds each absent needed column to the caller's     *)
(* table, with None in every cell: the cells r.get reads stay as they were.  *)
ElPasoProcess ==
    /\ proc = "el_paso"
    /\ pc = "start"
    /\ columns' = columns \cup ElPasoNeededInputs
    /\ IF ElPasoRaises(input)
       THEN pc' = "raised" /\ output' = NoTable
       ELSE pc' = AfterStages /\ output' = ElPasoResult(input, now)
    /\ UNCHANGED <<proc, values, merged, input, now, output_path, disk, workers, overall_bar>>

NextElPaso == ElPasoProcess

----------------------------------------------------------------------------
(* AustinDefaultPostProcessor.process.  The input is [cols, rows]: cols is  *)
(* the set of columns the table has (source names); a row holds NaN in a     *)
(* column the table lacks.                                                   *)

(* str(Timestamp) of a date at midnight *)
StrTimestamp(ymd) ==
    PadTo(IntToStr(ymd[1]), 4) \o <<"-">> \o Pad2(ymd[2]) \o <<"-">> \o Pad2(ymd[3])
    \o <<" ","0","0",":","0","0",":","0","0">>

(* Series.astype(str).str.lower() *)
AstypeStrLower(v) == Lower(PyStr(v))

(* lines 53-65: selection and renaming *)
AustinRenamed(df) ==
    [i \in DOMAIN df.rows |->
        [idx |-> i - 1,
         permit_number |-> df.rows[i].permit_number,
         record_type |-> df.rows[i].permit_type_desc,
         work_class |-> df.rows[i].work_class,
         application_date |-> df.rows[i].applieddate,
         status |-> df.rows[i].status_current,
         contractor_phone |-> df.rows[i].contractor_phone]]

rename_map == [permit_type_desc |-> "record_type", work_class |-> "work_class",
               applieddate |-> "application_date", status_current |-> "status",
               contractor_phone |-> "contractor_phone", permit_number |-> "permit_number"]

(* the columns of result after the renaming *)
AustinCols(df) == { rename_map[c] : c \in df.cols }

(* lines 67-70 *)
AustinLowered(df) ==
    TheOne({ [i \in DOMAIN t |->
                [c \in DOMAIN t[i] |->
                    IF c \in {"record_type", "work_class", "status"} /\ c \in AustinCols(df)
                    THEN AstypeStrLower(t[i][c]) ELSE t[i][c]]] :
             t \in {AustinRenamed(df)} })

BuildingPermit == <<"b","u","i","l","d","i","n","g"," ","p","e","r","m","i","t">>
WorkClassNew == <<"n","e","w">>

(* lines 72-76 *)
AustinTyped(df) ==
    SelectSeq(AustinLowered(df),
              LAMBDA r : /\ ("record_type" \in AustinCols(df) => r.record_type \in {BuildingPermit})
                         /\ ("work_class" \in AustinCols(df) => r.work_class \in {WorkClassNew}))

(* int(text) succeeds *)
IsIntText(v) == v # <<>> /\ AllDigits(v)

(* lines 85 and 89: pd.to_datetime and astype(int) raise on what they cannot convert *)
AustinRaises(df) ==
    \E t \in {AustinTyped(df)} :
        \/ /\ "application_date" \in AustinCols(df)
           /\ ToDatetimeRaises([i \in DOMAIN t |-> t[i].application_date])
        \/ /\ "contractor_phone" \in AustinCols(df)
           /\ \E i \in DOMAIN t : notna(t[i].contractor_phone) /\ ~IsIntText(t[i].contractor_phone)

(* lines 82-85 *)
AustinDated(df) ==
    TheOne({ [i \in DOMAIN t |->
                [t[i] EXCEPT !.application_date =
                    IF "application_date" \in AustinCols(df)
                    THEN (IF isna(@) THEN NaT ELSE ParseDate(@)) ELSE @]] :
             t \in {AustinTyped(df)} })

(* line 89: fillna(0).astype(int).astype(str).replace("0", np.nan) *)
CleanPhone(v) ==
    TheOne({ IF txt = <<"0">> THEN NaN ELSE txt :
             txt \in {IntToStr(IF isna(v) THEN 0 ELSE StrToInt(v))} })

(* lines 88-90 *)
AustinPhoned(df) ==
    IF "contractor_phone" \in AustinCols(df)
    THEN TheOne({ SelectSeq([i \in DOMAIN t |-> [t[i] EXCEPT !.contractor_phone = CleanPhone(@)]],
                            LAMBDA r : notna(r.contractor_phone) /\ Len(r.contractor_phone) = 10) :
                  t \in {AustinDated(df)} })
    ELSE AustinDated(df)

(* lines 104-109; the day count is a float column when a date is NaT *)
AustinBucketed(df, today) ==
    IF "application_date" \in AustinCols(df)
    THEN TheOne({ [i \in DOMAIN t |->
                     IF t[i].application_date = NaT
                     THEN [days_since_filling |-> NaN, bucket |-> NaN] @@ t[i]
                     ELSE [days_since_filling |->
                               IF \E j \in DOMAIN t : t[j].application_date = NaT
                               THEN PyStrInt(DaysSince(today, t[i].application_date)) \o <<".","0">>
                               ELSE PyStrInt(DaysSince(today, t[i].application_date)),
                           bucket |-> cut(DaysSince(today, t[i].application_date), bins, labels)]
                          @@ t[i]] :
                  t \in {AustinPhoned(df)} })
    ELSE AustinPhoned(df)

(* lines 110-111 *)
AustinSurvivors(df, today) ==
    IF "application_date" \in AustinCols(df) /\ "status" \in AustinCols(df)
    THEN SelectSeq(AustinBucketed(df, today), LAMBDA r : notna(r.bucket) /\ notna(r.status))
    ELSE AustinBucketed(df, today)

(* the columns of result handed to the aggregation, contractor_phone aside *)
AustinAggCols(df) ==
    (AustinCols(df) \ {"contractor_phone"})
    \cup (IF "application_date" \in AustinCols(df) THEN {"days_since_filling", "bucket"} ELSE {})

(* the cell as str() sees it: a Timestamp prints as 'YYYY-MM-DD 00:00:00' *)
AustinCells(df, today) ==
    TheOne({ [i \in DOMAIN t |->
                [t[i] EXCEPT !.application_date =
                    IF "application_date" \in AustinCols(df) /\ @ # NaT THEN StrTimestamp(@) ELSE @]] :
             t \in {AustinSurvivors(df, today)} })

(* lines 113-118: groupby("contractor_phone") with the default sort=True *)
AustinResult(df, today) ==
    TheOne({ IF "contractor_phone" \in AustinCols(df)
             THEN TheOne({ [n \in DOMAIN g |-> [contractor_phone |-> keys[n]] @@ g[n]] :
                           g \in {GroupByAgg(t, "contractor_phone", TRUE, AustinAggCols(df))},
                           keys \in {GroupKeys(t, "contractor_phone", TRUE)} })
             ELSE [i \in DOMAIN t |->
                     [c \in AustinAggCols(df) |-> t[i][c]] @@ [members |-> <<t[i].idx>>]] :
             t \in {AustinCells(df, today)} })

AustinProcess ==
    /\ proc = "austin"
    /\ pc = "start"
    /\ IF AustinRaises(input)
       THEN pc' = "raised" /\ output' = NoTable
       ELSE pc' = AfterStages /\ output' = AustinResult(input, now)
    /\ UNCHANGED <<proc, values, merged, input, now, columns, output_path, disk, workers, overall_bar>>

----------------------------------------------------------------------------
(* ArlingtonDefaultPostProcessor.process (arlington/processor.py).  A table  *)
(* is [cols, rows] as for Austin; the two contact columns hold lists of      *)
(* entries, an entry being a record with a phone_number, or no list.         *)

(* lines 64-67, 157 and 179 index a column by name: KeyError when it is absent; *)
(* line 65: astype(int) raises on text that is no integer                      *)
ArlingtonRaises(df) ==
    \/ ~({"building_zip_code", "application_date", "status"} \subseteq df.cols)
    \/ \E i \in DOMAIN df.rows :
          notna(df.rows[i].building_zip_code) /\ ~IsIntText(df.rows[i].building_zip_code)

(* lines 64-67: fillna(0).astype(int).astype(str).replace("0", "") *)
CleanZip(v) ==
    TheOne({ IF txt = <<"0">> THEN <<>> ELSE txt :
             txt \in {IntToStr(IF isna(v) THEN 0 ELSE StrToInt(v))} })

(* lines 62-67 *)
ArlingtonSelected(df) ==
    [i \in DOMAIN df.rows |->
        [idx |-> i - 1,
         permit_number |-> df.rows[i].permit_number,
         building_zip_code |-> CleanZip(df.rows[i].building_zip_code),
         status |-> df.rows[i].status,
         application_date |-> df.rows[i].application_date,
         associated_people |-> df.rows[i].associated_people,
         sub_contractors |-> df.rows[i].sub_contractors]]

(* lines 69-72 *)
ArlingtonLowered(df) ==
    TheOne({ [i \in DOMAIN t |-> [t[i] EXCEPT !.status = AstypeStrLower(@)]] :
             t \in {ArlingtonSelected(df)} })

(* lines 74-77: to_datetime(errors="coerce", format='%m/%d/%Y').dt.strftime("%d/%m/%Y") *)
CoerceToDMY(v) == IF notna(v) /\ IsDateText(v) THEN StrfDMY(ParseDate(v)) ELSE NaN

ArlingtonDates(df) ==
    TheOne({ [i \in DOMAIN t |-> [t[i] EXCEPT !.application_date = CoerceToDMY(@)]] :
             t \in {ArlingtonLowered(df)} })

(* lines 80-86: a cell that is no list becomes the empty list; a contact  *)
(* cell is [is_list, items]                                               *)
_ensure_list_from_json(val) == IF val.is_list THEN val.items ELSE <<>>

(* re.sub(r"\D", "", text) *)
DigitsOnly(s) == SelectSeq(s, IsDigit)

(* lines 131-138 *)
RECURSIVE calculate_phone_count(_)
calculate_phone_count(entries) ==
    IF entries = <<>> THEN 0
    ELSE (IF /\ notna(Head(entries).phone_number)
             /\ Head(entries).phone_number # <<>>
             /\ Len(DigitsOnly(Head(entries).phone_number)) = 10
          THEN 1 ELSE 0) + calculate_phone_count(Tail(entries))

(* dict.get: None for a key the entry lacks *)
Get(e, k) == IF k \in DOMAIN e THEN e[k] ELSE None

NA == <<"N","/","A">>
NL == <<"\n">>
Rule == [i \in 1..35 |-> "-"]

(* lines 97-106: the text of one associated person *)
PersonText(person) ==
    Join(NL, << <<"T","y","p","e",":"," ">> \o PyStr(Get(person, "type")),
                <<"N","a","m","e",":"," ">> \o Or(Get(person, "name"), NA),
                <<"E","m","a","i","l",":"," ">> \o Or(Get(person, "email"), NA),
                <<"P","h","o","n","e",":"," ">> \o Or(Get(person, "phone_number"), NA),
                <<"A","d","d","r","e","s","s",":"," ">> \o Or(Get(person, "address"), NA) >>)

(* lines 114-126: the text of one sub-contractor *)
ContractorText(contractor) ==
    Join(NL, << <<"T","y","p","e",":"," ">> \o PyStr(Get(contractor, "type")),
                <<"C","o","m","p","a","n","y"," ","N","a","m","e",":"," ">> \o Or(Get(contractor, "company_name"), NA),
                <<"F","u","l","l"," ","N","a","m","e",":"," ">> \o Or(Get(contractor, "point_of_contact"), NA),
                <<"E","m","a","i","l",":"," ">> \o Or(Get(contractor, "email"), NA),
                <<"P","h","o","n","e",":"," ">> \o Or(Get(contractor, "phone_number"), NA),
                <<"E","f","f","e","c","t","i","v","e"," ","f","r","o","m",":"," ">> \o Or(Get(contractor, "effective_from"), NA),
                <<"E","f","f","e","c","t","i","v","e"," ","t","o",":"," ">> \o Or(Get(contractor, "effective_to"), NA),
                <<"C","i","t","y"," ","r","e","g","i","s","t","r","a","t","i","o","n"," ","n","u","m","b","e","r",":"," ">> \o Or(Get(contractor, "city_registration_number"), NA) >>)

(* the output list of the two mapping helpers: a text and a rule per entry *)
RECURSIVE PeopleLines(_)
PeopleLines(people) ==
    IF people = <<>> THEN <<>>
    ELSE <<PersonText(Head(people)), Rule>> \o PeopleLines(Tail(people))

RECURSIVE ContractorLines(_)
ContractorLines(contracts) ==
    IF contracts = <<>> THEN <<>>
    ELSE <<ContractorText(Head(contracts)), Rule>> \o ContractorLines(Tail(contracts))

(* lines 94-109 *)
map_associated_people(people) == Strip(Join(NL, PeopleLines(people)))

(* lines 111-129 *)
map_sub_contractors(contracts) == Strip(Join(NL, ContractorLines(contracts)))

(* lines 141-149: an info and a count column replace each contact column the table has *)
ArlingtonCounted(df) ==
    TheOne({ [i \in DOMAIN t |->
                (IF "associated_people" \in df.cols
                 THEN TheOne({ [associated_people_info |-> map_associated_people(people),
                                associated_people_phone_count |-> calculate_phone_count(people)] :
                               people \in {_ensure_list_from_json(t[i].associated_people)} })
                 ELSE <<>>)
                @@ (IF "sub_contractors" \in df.cols
                    THEN TheOne({ [sub_contractors_info |-> map_sub_contractors(subs),
                                   sub_contractors_phone_count |-> calculate_phone_count(subs)] :
                                  subs \in {_ensure_list_from_json(t[i].sub_contractors)} })
                    ELSE <<>>)
                @@ [c \in (DOMAIN t[i]) \ {"associated_people", "sub_contractors"} |-> t[i][c]]] :
             t \in {ArlingtonDates(df)} })

(* lines 150-155: phone_count and its filter exist only when both count columns do *)
ArlingtonPhoned(df) ==
    TheOne({ IF {"associated_people", "sub_contractors"} \subseteq df.cols
             THEN SelectSeq([i \in DOMAIN t |->
                               [phone_count |-> t[i].associated_people_phone_count
                                                + t[i].sub_contractors_phone_count] @@ t[i]],
                            LAMBDA r : r.phone_count > 0)
             ELSE t :
             t \in {ArlingtonCounted(df)} })

(* pd.to_datetime(text, format='%d/%m/%Y') *)
ParseDMY(s) == <<StrToInt(SubSeq(s, 7, 10)), StrToInt(SubSeq(s, 4, 5)), StrToInt(SubSeq(s, 1, 2))>>

(* lines 157-158 *)
ArlingtonReparsed(df) ==
    TheOne({ [i \in DOMAIN t |-> [t[i] EXCEPT !.application_date = ParseDMY(@)]] :
             t \in {SelectSeq(ArlingtonPhoned(df), LAMBDA r : notna(r.application_date))} })

(* lines 163-176: the bins and labels built from the bucket triples *)
buckets == << <<-1, 90, recently_issued>>, <<91, 180, primary_backlog>> >>
arlington_bins == <<buckets[1][1]>> \o [i \in DOMAIN buckets |-> buckets[i][2]]
arlington_labels == [i \in DOMAIN buckets |-> buckets[i][3]]

(* lines 159-161 and 178 *)
ArlingtonBucketed(df, today) ==
    TheOne({ [i \in DOMAIN t |->
                [days_since_filling |-> DaysSince(today, t[i].application_date),
                 bucket |-> cut(DaysSince(today, t[i].application_date),
                                arlington_bins, arlington_labels)]
                @@ [t[i] EXCEPT !.application_date = StrfDMY(@)]] :
             t \in {ArlingtonReparsed(df)} })

(* line 179 *)
ArlingtonSurvivors(df, today) ==
    SelectSeq(ArlingtonBucketed(df, today), LAMBDA r : notna(r.bucket) /\ notna(r.status))

(* the processor does not group: every surviving row is an output row *)
ArlingtonResult(df, today) ==
    TheOne({ [i \in DOMAIN t |-> [members |-> <<t[i].idx>>] @@ t[i]] :
             t \in {ArlingtonSurvivors(df, today)} })

ArlingtonProcess ==
    /\ proc = "arlington"
    /\ pc = "start"
    /\ IF ArlingtonRaises(input)
       THEN pc' = "raised" /\ output' = NoTable
       ELSE pc' = AfterStages /\ output' = ArlingtonResult(input, now)
    /\ UNCHANGED <<proc, values, merged, input, now, columns, output_path, disk, workers, overall_bar>>

----------------------------------------------------------------------------
(* Inputs of the El Paso runs. *)
Today == Ordinal(<<2024, 7, 1>>)

ResidentialNew == <<"R","e","s","i","d","e","n","t","i","a","l"," ","N","e","w">>
ThirdPartyNew == <<"3","R","D"," ","P","A","R","T","Y"," ","R","E","S","I","D","E","N","T","I","A","L"," ","N","E","W">>
Commercial == <<"C","o","m","m","e","r","c","i","a","l">>
Issued == <<"I","s","s","u","e","d">>
NotADate == <<"T","B","D">>

(* dates 0, 90, 91, 180, 181 days before Today and one day after it *)
Date0 == <<"0","7","/","0","1","/","2","0","2","4">>
Date90 == <<"0","4","/","0","2","/","2","0","2","4">>
Date91 == <<"0","4","/","0","1","/","2","0","2","4">>
Date180 == <<"0","1","/","0","3","/","2","0","2","4">>
Date181 == <<"0","1","/","0","2","/","2","0","2","4">>
DateTomorrow == <<"0","7","/","0","2","/","2","0","2","4">>

PermitNo(i) == <<"P">> \o IntToStr(i)

ElPasoInputRow(app, lic, tp, ofn, oln, rt, st, ad) ==
    [permit_number |-> None, applicant |-> app, licensed_professional |-> lic,
     third_party |-> tp, owner_first_name |-> ofn, owner_last_name |-> oln,
     record_type |-> rt, status |-> st, application_date |-> ad]

(* the table with its permit numbers P0, P1, ... filled in by position *)
Numbered(rows) == [i \in DOMAIN rows |-> [rows[i] EXCEPT !.permit_number = PermitNo(i - 1)]]

Ann == <<"A","n","n">>
Lee == <<"L","e","e">>

Ungrouped1 == <<"1">>
Blank == <<" ">>

(* rows that differ in which roles carry a name; one profile is of a record *)
(* type the allow-list rejects                                             *)
KeyRows ==
    { ElPasoInputRow(app, lic, tp, own[1], own[2], ResidentialNew, Issued, Date0) :
        app \in {BlkPhoneOnly, BlkAnnLee, BlkBob},
        lic \in {NaN, BlkCyOrr},
        tp \in {NaN, BlkAnnLeeUpper},
        own \in { <<NaN, NaN>>, <<Lower(Ann), Lee>> } }
    \cup { ElPasoInputRow(BlkAnnLee, NaN, NaN, NaN, NaN, Commercial, Issued, Date0) }

(* rows that differ in the owner names, taken verbatim from the input *)
OwnerNames ==
    { <<NaN, NaN>>, <<<<>>, <<>>>>, <<Blank, Blank>>, <<Blank, Lee>>, <<Ann, NaN>>,
      <<Blank \o Ann \o Blank, Lower(Lee)>>, <<UNGROUPED, Ungrouped1>> }

OwnerRows ==
    { ElPasoInputRow(app, NaN, NaN, own[1], own[2], rt, Issued, Date0) :
        app \in {BlkPhoneOnly, BlkAnnLee},
        own \in OwnerNames,
        rt \in {ResidentialNew, Commercial} }

InitElPaso(Rows) ==
    /\ proc = "el_paso"
    /\ pc = "start"
    /\ values = <<>>
    /\ merged = None
    /\ \E rows \in SeqsUpTo(Rows, MaxRows) : input = Numbered(rows)
    /\ now = Today
    /\ output = NoTable
    /\ columns = ElPasoInputCols
    /\ NoWrite /\ NoWorkers

InitElPasoKeys == InitElPaso(KeyRows)
SpecElPasoKeys == InitElPasoKeys /\ [][NextElPaso]_vars

InitElPasoOwner == InitElPaso(OwnerRows)
SpecElPasoOwner == InitElPasoOwner /\ [][NextElPaso]_vars

----------------------------------------------------------------------------
(* Inputs of the Austin runs. *)
AustinAllCols == {"permit_number", "permit_type_desc", "work_class", "applieddate",
                  "status_current", "contractor_phone"}

BuildingPermitRaw == <<"B","u","i","l","d","i","n","g"," ","P","e","r","m","i","t">>
NewRaw == <<"N","e","w">>
Active == <<"A","c","t","i","v","e">>

Phone1 == <<"2","1","0","5","5","5","0","0","0","1">>
Phone2 == <<"2","1","0","5","5","5","0","0","0","2">>
PhoneShort == <<"0","9","9","9">>
PhoneDashed == <<"2","1","0","-","5","5","5">>

AustinInputRow(rt, wc, ad, st, ph) ==
    [permit_number |-> None, permit_type_desc |-> rt, work_class |-> wc,
     applieddate |-> ad, status_current |-> st, contractor_phone |-> ph]

(* a table that lacks a column holds NaN in it *)
AustinTable(cols, rows) ==
    [cols |-> cols,
     rows |-> [i \in DOMAIN rows |->
                 [c \in DOMAIN rows[i] |->
                     IF c = "permit_number" THEN PermitNo(i - 1)
                     ELSE IF c \in cols THEN rows[i][c] ELSE NaN]]]

InitAustin(Rows, ColSets) ==
    /\ proc = "austin"
    /\ pc = "start"
    /\ values = <<>>
    /\ merged = None
    /\ \E rows \in SeqsUpTo(Rows, MaxRows) : \E cols \in ColSets : input = AustinTable(cols, rows)
    /\ now = Today
    /\ output = NoTable
    /\ columns = input.cols
    /\ NoWrite /\ NoWorkers

(* rows that differ in the contractor phone, the grouping key *)
AustinPhoneRows ==
    { AustinInputRow(BuildingPermitRaw, NewRaw, ad, Active, ph) :
        ad \in {Date0, Date181},
        ph \in {NaN, Phone1, Phone2, PhoneShort, PhoneDashed} }

(* Runs of the two processors that aggregate. *)
InitAggregate ==
    \/ InitElPaso(KeyRows)
    \/ InitAustin(AustinPhoneRows, {AustinAllCols, AustinAllCols \ {"contractor_phone"}})

NextAggregate == ElPasoProcess \/ AustinProcess

SpecAggregate == InitAggregate /\ [][NextAggregate]_vars

----------------------------------------------------------------------------
(* El Paso runs over rows that differ in what the record filters look at:   *)
(* the record type, the application date, the phones and the status.        *)
FilterRows ==
    { ElPasoInputRow(app, NaN, NaN, NaN, NaN, rt, Issued, ad) :
        app \in {BlkAnnLee, BlkCyOrr},
        rt \in {ResidentialNew, ThirdPartyNew, Commercial},
        ad \in {NaN, NotADate, Date0, Date181} }
    \cup { ElPasoInputRow(BlkAnnLee, NaN, NaN, NaN, NaN, ResidentialNew, st, Date0) :
             st \in {NaN, <<>>} }

InitElPasoFilter == InitElPaso(FilterRows)
SpecElPasoFilter == InitElPasoFilter /\ [][NextElPaso]_vars

----------------------------------------------------------------------------
(* Two El Paso runs on the same table, the second up to MaxDays days after  *)
(* the first.  merged keeps the table the first run returned.               *)
MaxDays == 1

RerunRows ==
    { ElPasoInputRow(BlkAnnLee, NaN, NaN, NaN, NaN, ResidentialNew, Issued, ad) :
        ad \in {Date0, Date90, Date91, Date180, Date181} }

(* the wall clock passes midnight between the two calls *)
ClockTick ==
    /\ proc = "el_paso"
    /\ pc = "done"
    /\ now < Today + MaxDays
    /\ now' = now + 1
    /\ UNCHANGED <<proc, pc, values, merged, input, output, columns, output_path, disk, workers, overall_bar>>

(* process called again on the same table *)
ElPasoProcessAgain ==
    /\ proc = "el_paso"
    /\ pc = "done"
    /\ pc' = "done2"
    /\ merged' = output
    /\ output' = ElPasoResult(input, now)
    /\ UNCHANGED <<proc, values, input, now, columns, output_path, disk, workers, overall_bar>>

InitElPasoTwice == InitElPaso(RerunRows)
NextElPasoTwice == ElPasoProcess \/ ClockTick \/ ElPasoProcessAgain
SpecElPasoTwice == InitElPasoTwice /\ [][NextElPasoTwice]_vars

----------------------------------------------------------------------------
(* Inputs of the Arlington runs. *)
ArlingtonAllCols ==
    {"permit_number", "building_zip_code", "status", "application_date",
     "associated_people", "sub_contractors"}

(* a contact cell: a list of entries, or something that is no list *)
ListOf(items) == [is_list |-> TRUE, items |-> items]
NoList == [is_list |-> FALSE, items |-> <<>>]

ArlingtonInputRow(ad, st, people, subs) ==
    [permit_number |-> None, building_zip_code |-> NaN, status |-> st,
     application_date |-> ad, associated_people |-> people, sub_contractors |-> subs]

(* a table that lacks a column holds NaN in it *)
ArlingtonTable(cols, rows) ==
    [cols |-> cols,
     rows |-> [i \in DOMAIN rows |->
                 [c \in DOMAIN rows[i] |->
                     IF c = "permit_number" THEN PermitNo(i - 1)
                     ELSE IF c \in cols THEN rows[i][c]
                     ELSE IF c \in {"associated_people", "sub_contractors"} THEN NoList
                     ELSE NaN]]]

InitArlington(Rows, ColSets) ==
    /\ proc = "arlington"
    /\ pc = "start"
    /\ values = <<>>
    /\ merged = None
    /\ \E rows \in SeqsUpTo(Rows, MaxRows) : \E cols \in ColSets : input = ArlingtonTable(cols, rows)
    /\ now = Today
    /\ output = NoTable
    /\ columns = input.cols
    /\ NoWrite /\ NoWorkers

----------------------------------------------------------------------------
(* Arlington runs over rows that differ in the contact lists: no list, an   *)
(* empty list, entries without a number, and numbers of 4, 10 and 11 digits. *)
Phone11 == <<"1","8","1","7","5","5","5","0","1","0","1">>
PhoneDashed10 == <<"8","1","7","-","5","5","5","-","0","1","0","1">>
Entry(ph) == [phone_number |-> ph]

PeopleCells ==
    { NoList, ListOf(<<>>), ListOf(<<Entry(None)>>), ListOf(<<Entry(PhoneShort)>>),
      ListOf(<<Entry(PhoneDashed10)>>), ListOf(<<Entry(PhoneDashed10), Entry(Phone1)>>),
      ListOf(<<Entry(Phone11), Entry(Phone1)>>) }
SubsCells ==
    { NoList, ListOf(<<Entry(<<>>)>>), ListOf(<<Entry(PhoneDashed10)>>),
      ListOf(<<Entry(PhoneShort), Entry(Phone1)>>) }

ArlingtonPhoneRows ==
    { ArlingtonInputRow(Date0, Issued, people, subs) : people \in PeopleCells, subs \in SubsCells }

InitArlingtonPhones ==
    InitArlington(ArlingtonPhoneRows,
                  {ArlingtonAllCols, ArlingtonAllCols \ {"sub_contractors"},
                   ArlingtonAllCols \ {"associated_people"}})

NextArlington == ArlingtonProcess

SpecArlingtonPhones == InitArlingtonPhones /\ [][NextArlington]_vars

----------------------------------------------------------------------------
(* Arlington runs over rows that share or differ in the applicant's name    *)
(* and in the sub-contractor.                                               *)
Applicant == <<"A","p","p","l","i","c","a","n","t">>
AnnLee == <<"A","n","n"," ","L","e","e">>
BobRay == <<"B","o","b"," ","R","a","y">>
CompanyA == <<"A">>
CompanyB == <<"B">>

ApplicantEntry(name) == [type |-> Applicant, name |-> name, phone_number |-> PhoneDashed10]
ContractorEntry(company) == [type |-> None, company_name |-> company, phone_number |-> Phone1]

ArlingtonContactRows ==
    { ArlingtonInputRow(ad, Issued, ListOf(<<ApplicantEntry(name)>>), ListOf(subs)) :
        ad \in {Date0, Date181},
        name \in {AnnLee, BobRay},
        subs \in { <<>>, <<ContractorEntry(CompanyA)>>, <<ContractorEntry(CompanyB)>> } }

InitArlingtonContacts == InitArlington(ArlingtonContactRows, {ArlingtonAllCols})

SpecArlingtonContacts == InitArlingtonContacts /\ [][NextArlington]_vars

----------------------------------------------------------------------------
(* Runs of the three processors over rows that differ in the application    *)
(* date: absent, no date, one day ahead of the clock, and 0, 90, 91, 180    *)
(* and 181 days behind it.                                                  *)
BucketDates == {NaN, NotADate, DateTomorrow, Date0, Date90, Date91, Date180, Date181}

ElPasoDateRows ==
    { ElPasoInputRow(BlkAnnLee, NaN, NaN, NaN, NaN, ResidentialNew, st, ad) :
        st \in {Issued, NaN}, ad \in BucketDates }

AustinDateRows ==
    { AustinInputRow(BuildingPermitRaw, NewRaw, ad, st, Phone1) :
        st \in {Active, NaN}, ad \in BucketDates }

ArlingtonDateRows ==
    { ArlingtonInputRow(ad, st, ListOf(<<[phone_number |-> PhoneDashed10]>>), NoList) :
        st \in {Issued, NaN}, ad \in BucketDates }
    \cup { ArlingtonInputRow(Date181, Issued, ListOf(people), ListOf(<<>>)) :
             people \in { <<>>, <<[phone_number |-> None]>>, <<[phone_number |-> PhoneShort]>> } }

InitBuckets ==
    \/ InitElPaso(ElPasoDateRows)
    \/ InitAustin(AustinDateRows, {AustinAllCols, AustinAllCols \ {"status_current"}})
    \/ InitArlington(ArlingtonDateRows, {ArlingtonAllCols, ArlingtonAllCols \ {"sub_contractors"}})

NextBuckets == ElPasoProcess \/ AustinProcess \/ ArlingtonProcess

SpecBuckets == InitBuckets /\ [][NextBuckets]_vars

----------------------------------------------------------------------------
(* Runs of the three processors over tables that lack some of the expected  *)
(* columns; the cells of the columns that are there are well formed.        *)

(* El Paso reads every cell with r.get(column): None when the column is absent *)
ElPasoWithout(absent, rows) ==
    [i \in DOMAIN rows |-> [c \in DOMAIN rows[i] |-> IF c \in absent THEN None ELSE rows[i][c]]]

ElPasoOptionalCols == {"record_type", "status", "application_date", "applicant"}
AustinOptionalCols ==
    {"permit_type_desc", "work_class", "applieddate", "status_current", "contractor_phone"}
ArlingtonOptionalCols ==
    {"building_zip_code", "application_date", "status", "associated_people", "sub_contractors"}

ElPasoPlainRows ==
    { ElPasoInputRow(BlkAnnLee, NaN, NaN, NaN, NaN, ResidentialNew, Issued, ad) : ad \in {Date0, Date181} }
AustinPlainRows ==
    { AustinInputRow(BuildingPermitRaw, NewRaw, ad, Active, Phone1) : ad \in {Date0, Date181} }
ArlingtonPlainRows ==
    { ArlingtonInputRow(ad, Issued, ListOf(<<Entry(PhoneDashed10)>>), ListOf(<<>>)) :
        ad \in {Date0, Date181} }

InitColumns ==
    \/ /\ proc = "el_paso"
       /\ pc = "start"
       /\ values = <<>>
       /\ merged = None
       /\ \E rows \in SeqsUpTo(ElPasoPlainRows, MaxRows) : \E absent \in SUBSET ElPasoOptionalCols :
             /\ input = ElPasoWithout(absent, Numbered(rows))
             /\ columns = ElPasoInputCols \ absent
       /\ now = Today
       /\ output = NoTable
       /\ NoWrite /\ NoWorkers
    \/ InitAustin(AustinPlainRows, { AustinAllCols \ absent : absent \in SUBSET AustinOptionalCols })
    \/ InitArlington(ArlingtonPlainRows,
                     { ArlingtonAllCols \ absent : absent \in SUBSET ArlingtonOptionalCols })

SpecColumns == InitColumns /\ [][NextBuckets]_vars

----------------------------------------------------------------------------
(* The final write of process (el_paso 284-292, arlington 181-189, austin   *)
(* 120-129).  A file is [format, rows, complete]: to_csv and to_parquet     *)
(* open the destination itself, which truncates it, write the table into it *)
(* piece by piece and close it; complete is set by the close.  An OSError   *)
(* of the open or of a write (disk full, lost mount) leaves process through *)
(* no handler.                                                              *)
EndsWith(s, suffix) ==
    Len(s) >= Len(suffix) /\ SubSeq(s, Len(s) - Len(suffix) + 1, Len(s)) = suffix

DotCsv == <<".","c","s","v">>
DotParquet == <<".","p","a","r","q","u","e","t">>
DotPq == <<".","p","q">>

write_format_cased(op) ==
    IF EndsWith(op, DotCsv) THEN "csv"
    ELSE IF EndsWith(op, DotParquet) \/ EndsWith(op, DotPq) THEN "parquet"
    ELSE "csv"
(* the if / elif / else on the lower-cased path *)
write_format(op) ==
    IF EndsWith(Lower(op), DotCsv) THEN "csv"
    ELSE IF EndsWith(Lower(op), DotParquet) \/ EndsWith(Lower(op), DotPq) THEN "parquet"
    ELSE "csv"

Exists(path) == path \in DOMAIN disk.files
FileAt(path) == disk.files[path]
WithFile(path, file) == [q \in DOMAIN disk.files \cup {path} |-> IF q = path THEN file ELSE disk.files[q]]

(* open(path, "w"): the destination is created or truncated *)
PersistOpen ==
    /\ proc \in {"el_paso", "austin", "arlington"}
    /\ pc = "persist"
    /\ pc' = "writing"
    /\ disk' = [files |-> WithFile(output_path, [format |-> write_format(output_path),
                                                 rows |-> <<>>, complete |-> FALSE]),
                opened |-> Append(disk.opened, [path |-> output_path,
                                                format |-> write_format(output_path)])]
    /\ UNCHANGED <<proc, values, merged, input, now, output, columns, output_path, workers, overall_bar>>

(* the next row of the table reaches the file *)
PersistWriteRow ==
    /\ pc = "writing"
    /\ Len(FileAt(output_path).rows) < Len(output)
    /\ disk' = [disk EXCEPT !.files[output_path].rows = Append(@, output[Len(@) + 1])]
    /\ UNCHANGED <<proc, pc, values, merged, input, now, output, columns, output_path, workers, overall_bar>>

(* the file is closed and process returns the table *)
PersistClose ==
    /\ pc = "writing"
    /\ Len(FileAt(output_path).rows) = Len(output)
    /\ pc' = "done"
    /\ disk' = [disk EXCEPT !.files[output_path].complete = TRUE]
    /\ UNCHANGED <<proc, values, merged, input, now, output, columns, output_path, workers, overall_bar>>

(* the open or a write raises OSError: process raises, the file stays as it is *)
PersistFail ==
    /\ pc \in {"persist", "writing"}
    /\ pc' = "write_failed"
    /\ output' = NoTable
    /\ UNCHANGED <<proc, values, merged, input, now, columns, output_path, disk, workers, overall_bar>>

OutLowerCsv == <<"a",".","c","s","v">>
OutUpperCsv == <<"A",".","C","S","V">>
OutParquet == <<"a",".","P","a","r","q","u","e","t">>
OutPq == <<"a",".","p","q">>
OutUpperPq == <<"A",".","P","Q">>
OutTxt == <<"a",".","t","x","t">>
OutBare == <<"p","q">>
OutputPaths == {None, OutLowerCsv, OutUpperCsv, OutParquet, OutPq, OutUpperPq, OutTxt, OutBare}

(* what an earlier run left at the destination *)
PreviousFile == [format |-> "csv", rows |-> <<[permit_number |-> <<"P","9">>]>>, complete |-> TRUE]

InitDisk ==
    /\ output_path \in OutputPaths
    /\ \/ disk = NoDisk
       \/ output_path # None /\ disk = [files |-> [q \in {output_path} |-> PreviousFile], opened |-> <<>>]

InitPersist ==
    /\ pc = "start"
    /\ values = <<>>
    /\ merged = None
    /\ now = Today
    /\ output = NoTable
    /\ \/ /\ proc = "el_paso"
          /\ \E rows \in SeqsUpTo(ElPasoPlainRows, MaxRows) : input = Numbered(rows)
          /\ columns = ElPasoInputCols
       \/ /\ proc = "austin"
          /\ \E rows \in SeqsUpTo(AustinPlainRows, MaxRows) : input = AustinTable(AustinAllCols, rows)
          /\ columns = input.cols
       \/ /\ proc = "arlington"
          /\ \E rows \in SeqsUpTo(ArlingtonPlainRows, MaxRows) :
                \E cols \in {ArlingtonAllCols, ArlingtonAllCols \ {"status"}} :
                   input = ArlingtonTable(cols, rows)
          /\ columns = input.cols
    /\ InitDisk
    /\ NoWorkers

NextPersist ==
    \/ ElPasoProcess \/ AustinProcess \/ ArlingtonProcess
    \/ PersistOpen \/ PersistWriteRow \/ PersistClose \/ PersistFail

SpecPersist == InitPersist /\ [][NextPersist]_vars

----------------------------------------------------------------------------
(* persist_result of PermitDetailsBaseScraper and PermitListBaseScraper,    *)
(* called by up to MaxWriters concurrent scrapers (workers of one run, or   *)
(* several runs on the same data directory).  A file's content is the       *)
(* sequence of the pieces written to it; a payload has two pieces.          *)
MaxWriters == 2

Writers == DOMAIN workers
PermitIds == {"24-001", "24-002"}

(* json.dumps(result.model_dump(...)): the payload of writer w *)
payload(w) == <<[by |-> w, piece |-> 1], [by |-> w, piece |-> 2]>>
PreviousPayload == payload(0)

(* out_dir / f"{permit_number}.json" *)
final_path(id) == <<id, ".json">>

tmp_name_shared(id, w) == <<".", id, ".tmp">>
(* f".{permit_number}.{uuid4().hex}.tmp": uuid4 differs from call to call *)
tmp_name(id, w) == <<".", id, ".">> \o IntToStr(w) \o <<".tmp">>

Locals(w, at) == [workers EXCEPT ![w].pc = at]

(* tmp_path.write_text opens the temp file, which creates or truncates it *)
TmpOpen(w) ==
    /\ workers[w].pc = "start"
    /\ workers' = Locals(w, "writing")
    /\ disk' = [disk EXCEPT !.files = WithFile(tmp_name(workers[w].id, w), <<>>)]
    /\ UNCHANGED <<proc, pc, values, merged, input, now, output, columns, output_path, overall_bar>>

(* one more piece of the payload reaches the temp file *)
TmpWrite(w) ==
    /\ workers[w].pc = "writing"
    /\ Exists(tmp_name(workers[w].id, w))
    /\ Len(FileAt(tmp_name(workers[w].id, w))) < Len(payload(w))
    /\ disk' = [disk EXCEPT !.files[tmp_name(workers[w].id, w)] = Append(@, payload(w)[Len(@) + 1])]
    /\ UNCHANGED <<proc, pc, values, merged, input, now, output, columns, output_path, workers, overall_bar>>

(* os.replace(tmp_path, final_path) after write_text has returned: one step *)
Replace(w) ==
    /\ workers[w].pc = "writing"
    /\ Exists(tmp_name(workers[w].id, w))
    /\ Len(FileAt(tmp_name(workers[w].id, w))) >= Len(payload(w))
    /\ workers' = Locals(w, "returned")
    /\ disk' = [disk EXCEPT !.files =
                  [q \in (DOMAIN disk.files \cup {final_path(workers[w].id)})
                           \ {tmp_name(workers[w].id, w)} |->
                      IF q = final_path(workers[w].id)
                      THEN FileAt(tmp_name(workers[w].id, w)) ELSE disk.files[q]]]
    /\ UNCHANGED <<proc, pc, values, merged, input, now, output, columns, output_path, overall_bar>>

(* mkdir, the open, a write or the replace raises: except Exception logs it *)
(* and persist_result returns None                                          *)
PersistSwallow(w) ==
    /\ workers[w].pc \in {"start", "writing"}
    /\ workers' = Locals(w, "returned")
    /\ UNCHANGED <<proc, pc, values, merged, input, now, output, columns, output_path, disk, overall_bar>>

InitPersistResult ==
    /\ proc = "persist_result"
    /\ pc = "run"
    /\ values = <<>>
    /\ merged = None
    /\ input = NoTable
    /\ now = Today
    /\ output = NoTable
    /\ columns = {}
    /\ output_path = None
    /\ \E n \in 1..MaxWriters : workers \in [1..n -> [pc : {"start"}, id : PermitIds]]
    /\ \E had \in SUBSET PermitIds :
          disk = [files |-> [q \in { final_path(id) : id \in had } |-> PreviousPayload],
                  opened |-> <<>>]
    /\ overall_bar = NoBar

NextPersistResult ==
    \/ \E w \in Writers : TmpOpen(w)
    \/ \E w \in Writers : TmpWrite(w)
    \/ \E w \in Writers : Replace(w)
    \/ \E w \in Writers : PersistSwallow(w)

SpecPersistResult == InitPersistResult /\ [][NextPersistResult]_vars

----------------------------------------------------------------------------
(* Date ranges and work lists of the scraper UI.  A datetime.date is its    *)
(* proleptic ordinal, date.min..date.max; date + timedelta outside that     *)
(* range raises OverflowError.  A call returns [raises, value]: raises is   *)
(* "" when the call returns value, else the name of the exception.          *)
date_min == 1
date_max == 3652059

Returns(v) == [raises |-> "", value |-> v]
Raises(e) == [raises |-> e, value |-> <<>>]
InDateRange(n) == date_min <= n /\ n <= date_max

(* a days_per_step argument: None or an int *)
NoStep == [is_none |-> TRUE, n |-> 0]
Step(n) == [is_none |-> FALSE, n |-> n]

(* math.ceil(a / b) for b > 0 *)
CeilDiv(a, b) == -((-a) \div b)

(* utils.py 105-119: the for loop of iter_range_by_parts from iteration i *)
RECURSIVE parts_loop(_, _, _, _)
parts_loop(i, current, result, a) ==
    IF i >= a.parts THEN Returns(result)
    ELSE LET days == a.base + (IF i < a.rem THEN 1 ELSE 0)
             end0 == current + (days - 1)
         IN  IF ~InDateRange(end0) THEN Raises("OverflowError")
             ELSE LET chunk_end == IF end0 > a.end_d \/ i = a.parts - 1 THEN a.end_d ELSE end0
                      chunks == Append(result, <<current, chunk_end>>)
                  IN  IF ~InDateRange(chunk_end + 1) THEN Raises("OverflowError")
                      ELSE IF chunk_end + 1 > a.end_d THEN Returns(chunks)
                      ELSE parts_loop(i + 1, chunk_end + 1, chunks, a)

(* utils.py 76-120 *)
iter_range_by_parts(start_d, end_d, parts) ==
    IF parts <= 0 THEN Raises("ValueError")
    ELSE parts_loop(0, start_d, <<>>,
                    [parts |-> parts, end_d |-> end_d,
                     base |-> (end_d - start_d + 1) \div parts,
                     rem |-> (end_d - start_d + 1) % parts])

(* permit_list.py 185-192: the while loop of _iter_chunks *)
RECURSIVE chunks_loop(_, _, _, _)
chunks_loop(cur, end, step, chunks) ==
    IF ~(cur <= end) THEN Returns(chunks)
    ELSE IF ~InDateRange(cur + step) THEN Raises("OverflowError")
    ELSE LET cur_end == IF cur + step > end THEN end ELSE cur + step
         IN  IF ~InDateRange(cur_end + 1) THEN Raises("OverflowError")
             ELSE chunks_loop(cur_end + 1, end, step, Append(chunks, <<cur, cur_end>>))

(* permit_list.py 175-193 *)
_iter_chunks(start, end, days_per_step) ==
    IF start > end THEN Raises("ValueError")
    ELSE IF days_per_step.is_none \/ days_per_step.n = -1 THEN Returns(<<<<start, end>>>>)
    ELSE chunks_loop(start, end, days_per_step.n, <<>>)

(* utils.py 124-134 *)
compute_chunk_count(start_d, end_d, days_per_step) ==
    IF days_per_step.is_none \/ days_per_step.n = -1 THEN Returns(1)
    ELSE Returns(CeilDiv(end_d - start_d + 1,
                         (IF days_per_step.n > 0 THEN days_per_step.n ELSE 0) + 1))

(* list_runner.py 26-29: None == -1 is false, and dividing by None raises TypeError *)
calc_days_between(start_d, end_d, days_per_step) ==
    IF ~days_per_step.is_none /\ days_per_step.n = -1 THEN Returns(1)
    ELSE IF days_per_step.is_none THEN Raises("TypeError")
    ELSE IF days_per_step.n = 0 THEN Raises("ZeroDivisionError")
    ELSE IF days_per_step.n > 0 THEN Returns(CeilDiv(end_d - start_d + 1, days_per_step.n))
    ELSE Returns(-((end_d - start_d + 1) \div (-days_per_step.n)))

Max(a, b) == IF a >= b THEN a ELSE b
Smaller(a, b) == IF a <= b THEN a ELSE b

(* utils.py 44-50: the for loop of chunk_evenly from slice i *)
RECURSIVE slices_loop(_, _, _, _, _)
slices_loop(i, start, result, items, a) ==
    IF i >= a.n THEN result
    ELSE LET end == start + a.size + (IF i < a.remainder THEN 1 ELSE 0)
         IN  slices_loop(i + 1, end, Append(result, SubSeq(items, start + 1, end)), items, a)

chunk_evenly_as_asked(items, chunks) ==
    IF chunks <= 0 THEN <<>>
    ELSE slices_loop(0, 0, <<>>, items,
                     [n |-> chunks, size |-> Len(items) \div chunks, remainder |-> Len(items) % chunks])
(* utils.py 34-51 *)
chunk_evenly(items, chunks) ==
    slices_loop(0, 0, <<>>, items,
                [n |-> Max(1, chunks), size |-> Len(items) \div Max(1, chunks),
                 remainder |-> Len(items) % Max(1, chunks)])

(* details_runner.py 87-88: the slice of each worker *)
run_details_chunks(permits, instances) ==
    chunk_evenly(permits, Max(1, Smaller(instances, Len(permits))))

(* The calls, on ranges at either end of the date type and in between.  A   *)
(* negative step walks down to date.min one chunk at a time, so it is      *)
(* called on the ranges next to date.min.                                   *)
MaxSpan == 5
MaxPermits == 5

EarlyDays == date_min .. (date_min + MaxSpan)
MidDays == Ordinal(<<2024, 7, 1>>) .. (Ordinal(<<2024, 7, 1>>) + MaxSpan)
LateDays == (date_max - MaxSpan) .. date_max
DateRanges ==
    (EarlyDays \X EarlyDays) \cup (MidDays \X MidDays) \cup (LateDays \X LateDays)
Counts == (0 - 3) .. (MaxSpan + 2)
Steps == {NoStep} \cup { Step(n) : n \in Counts }

InitChunking ==
    /\ pc = "start"
    /\ merged = None
    /\ input = NoTable
    /\ now = Today
    /\ output = NoTable
    /\ columns = {}
    /\ NoWrite /\ NoWorkers
    /\ \/ /\ proc = "iter_range_by_parts"
          /\ \E r \in DateRanges : \E parts \in Counts :
                values = [start |-> r[1], end |-> r[2], parts |-> parts]
       \/ /\ proc \in {"_iter_chunks", "compute_chunk_count", "calc_days_between"}
          /\ \E r \in DateRanges : \E dps \in Steps :
                /\ (dps.n < -1 => r[1] \in EarlyDays)
                /\ values = [start |-> r[1], end |-> r[2], days_per_step |-> dps]
       \/ /\ proc \in {"chunk_evenly", "run_details"}
          /\ \E n \in 0..MaxPermits : \E chunks \in Counts :
                values = [items |-> [i \in 1..n |-> PermitNo(i)], chunks |-> chunks]

Call(name, result) ==
    /\ proc = name
    /\ pc = "start"
    /\ pc' = "done"
    /\ merged' = result
    /\ UNCHANGED <<proc, values, input, now, output, columns, output_path, disk, workers, overall_bar>>

IterRangeByParts == Call("iter_range_by_parts", iter_range_by_parts(values.start, values.end, values.parts))
IterChunks == Call("_iter_chunks", _iter_chunks(values.start, values.end, values.days_per_step))
ComputeChunkCount ==
    Call("compute_chunk_count", compute_chunk_count(values.start, values.end, values.days_per_step))
CalcDaysBetween ==
    Call("calc_days_between", calc_days_between(values.start, values.end, values.days_per_step))
ChunkEvenly == Call("chunk_evenly", chunk_evenly(values.items, values.chunks))
RunDetailsChunks == Call("run_details", run_details_chunks(values.items, values.chunks))

NextChunking ==
    \/ IterRangeByParts \/ IterChunks \/ ComputeChunkCount \/ CalcDaysBetween
    \/ ChunkEvenly \/ RunDetailsChunks

SpecChunking == InitChunking /\ [][NextChunking]_vars

----------------------------------------------------------------------------
(* run_list and run_details: up to MaxWorkers workers, each awaiting the    *)
(* scrape_async of its own scraper with its own on_progress callback; the   *)
(* tasks of asyncio.gather interleave at every await.  A worker record is   *)
(*   kind      the scraper: "arlington" | "austin" (lists), "el_paso"       *)
(*   items     chunks of the date range, or permits handed to the scraper   *)
(*   found     iterations of the scraper's loop (for El Paso the rows of    *)
(*             the overview table that match a handed permit)               *)
(*   i         iterations finished                                          *)
(*   pc        "loop" | "after_success" | "after_failure": inside           *)
(*             scrape_async; "returned" | "raised": the worker is done      *)
(*   success_chunks_total, failed_chunks_total, announced_total, per_bar:   *)
(*             the worker's locals                                          *)
(*   calls     per iteration started, the callbacks made for it             *)
MaxWorkers == 2
MaxItems == 2

Instances == DOMAIN workers

(* on_progress (list_runner 55-73, details_runner 36-52) called for         *)
(* iteration k of worker w: the new worker record and the new overall bar   *)
OnProgressWorker(w, k, success_inc, failed_inc, total_chunks) ==
    [workers[w] EXCEPT
       !.success_chunks_total = @ + success_inc,
       !.failed_chunks_total = @ + failed_inc,
       !.per_bar = [n |-> @.n + success_inc + failed_inc,
                    total |-> IF workers[w].announced_total THEN @.total ELSE total_chunks],
       !.announced_total = TRUE,
       !.calls = IF k <= Len(@)
                 THEN [@ EXCEPT ![k] = [success |-> @.success + success_inc,
                                        failed |-> @.failed + failed_inc]]
                 ELSE Append(@, [success |-> success_inc, failed |-> failed_inc])]

OnProgressBar(w, success_inc, failed_inc, total_chunks) ==
    [n |-> overall_bar.n + success_inc + failed_inc,
     total |-> IF workers[w].announced_total THEN overall_bar.total
               ELSE overall_bar.total + total_chunks]

(* process_progress_callback of the scraper, then the scraper goes on at pc "at" *)
Callback(w, success_inc, failed_inc, at, done) ==
    /\ workers' = [workers EXCEPT ![w] =
                     [OnProgressWorker(w, workers[w].i + 1, success_inc, failed_inc, workers[w].items)
                        EXCEPT !.pc = at, !.i = @ + done]]
    /\ overall_bar' = OnProgressBar(w, success_inc, failed_inc, workers[w].items)
    /\ UNCHANGED <<proc, pc, values, merged, input, now, output, columns, output_path, disk>>

InLoop(w, kind) ==
    /\ workers[w].kind = kind
    /\ workers[w].pc = "loop"
    /\ workers[w].i < workers[w].found

(* arlington/permits_list.py 143-163: the chunk is exported and reported,   *)
(* persist_result returns, and the scraper awaits the delay between chunks  *)
ArlingtonChunkReported(w) == InLoop(w, "arlington") /\ Callback(w, 1, 0, "after_success", 0)

(* 164-172: a step of the chunk raises before the report *)
ArlingtonChunkFailed(w) == InLoop(w, "arlington") /\ Callback(w, 0, 1, "after_failure", 0)

(* 163 raises: the except clause of the same try reports the chunk again *)
ArlingtonDelayRaises(w) ==
    /\ workers[w].kind = "arlington"
    /\ workers[w].pc = "after_success"
    /\ Callback(w, 0, 1, "after_failure", 0)

(* the delay of line 163 or 172 is over: next chunk *)
ArlingtonNextChunk(w) ==
    /\ workers[w].kind = "arlington"
    /\ workers[w].pc \in {"after_success", "after_failure"}
    /\ workers' = [workers EXCEPT ![w].pc = "loop", ![w].i = @ + 1]
    /\ UNCHANGED <<proc, pc, values, merged, input, now, output, columns, output_path, disk, overall_bar>>

(* austin/permits_list.py 94-126: try / except / finally, one report *)
AustinChunk(w) ==
    /\ InLoop(w, "austin")
    /\ \E success \in BOOLEAN :
          Callback(w, IF success THEN 1 ELSE 0, IF success THEN 0 ELSE 1, "loop", 1)

(* el_paso/permit_details.py 166-189: one report per row of permit_data,    *)
(* with len(permit_numbers) as the total                                    *)
ElPasoPermit(w) ==
    /\ InLoop(w, "el_paso")
    /\ \E success \in BOOLEAN :
          Callback(w, IF success THEN 1 ELSE 0, IF success THEN 0 ELSE 1, "loop", 1)

(* scrape_async returns; the worker returns its counts (list_runner 102-103) *)
ScrapeReturns(w) ==
    /\ workers[w].pc = "loop"
    /\ workers[w].i = workers[w].found
    /\ workers' = [workers EXCEPT ![w].pc = "returned"]
    /\ UNCHANGED <<proc, pc, values, merged, input, now, output, columns, output_path, disk, overall_bar>>

(* scrape_async raises: a step before the first iteration, or Arlington's   *)
(* delay inside its except clause (172).  The worker marks what remains of  *)
(* its bar as failed (list_runner 82-100, details_runner 61-73).            *)
ScrapeRaises(w) ==
    /\ \/ workers[w].pc = "loop" /\ workers[w].i = 0
       \/ workers[w].kind = "arlington" /\ workers[w].pc = "after_failure"
    /\ LET done == workers[w].success_chunks_total + workers[w].failed_chunks_total
           remaining == Max(0, workers[w].per_bar.total - done)
       IN  /\ workers' = [workers EXCEPT ![w].pc = "raised",
                                         ![w].failed_chunks_total = @ + remaining,
                                         ![w].per_bar.n = @ + remaining]
           /\ overall_bar' = [overall_bar EXCEPT !.n = @ + remaining]
    /\ UNCHANGED <<proc, pc, values, merged, input, now, output, columns, output_path, disk>>

RECURSIVE SumOver(_, _)
SumOver(rs, field) == IF rs = <<>> THEN 0 ELSE Head(rs)[field] + SumOver(Tail(rs), field)

(* runner (list_runner 145-154, details_runner 102-111): gather, then add up *)
Gather ==
    /\ pc = "run"
    /\ proc = "runner"
    /\ \A w \in Instances : workers[w].pc \in {"returned", "raised"}
    /\ pc' = "done"
    /\ merged' = [success |-> SumOver(workers, "success_chunks_total"),
                  failed |-> SumOver(workers, "failed_chunks_total")]
    /\ UNCHANGED <<proc, values, input, now, output, columns, output_path, disk, workers, overall_bar>>

NewWorker(kind, items, found) ==
    [kind |-> kind, items |-> items, found |-> found, i |-> 0, pc |-> "loop",
     success_chunks_total |-> 0, failed_chunks_total |-> 0, announced_total |-> FALSE,
     per_bar |-> [n |-> 0, total |-> 0], calls |-> <<>>]

(* run_list starts list scrapers, each on a range of 1..MaxItems chunks;    *)
(* run_details starts details scrapers, each on 1..MaxItems permits of      *)
(* which the overview table holds some or all                               *)
StartedWorkers ==
    { NewWorker(kind, items, items) : kind \in {"arlington", "austin"}, items \in 1..MaxItems }
    \cup { NewWorker("el_paso", c[1], c[2]) :
              c \in { d \in (1..MaxItems) \X (0..MaxItems) : d[2] <= d[1] } }

InitWorkers ==
    /\ proc = "runner"
    /\ pc = "run"
    /\ values = <<>>
    /\ merged = None
    /\ input = NoTable
    /\ now = Today
    /\ output = NoTable
    /\ columns = {}
    /\ NoWrite
    /\ \E n \in 1..MaxWorkers : workers \in [1..n -> StartedWorkers]
    /\ \A v, w \in Instances : (workers[v].kind = "el_paso") = (workers[w].kind = "el_paso")
    /\ overall_bar = NoBar

NextWorkers ==
    \/ \E w \in Instances : ArlingtonChunkReported(w)
    \/ \E w \in Instances : ArlingtonChunkFailed(w)
    \/ \E w \in Instances : ArlingtonDelayRaises(w)
    \/ \E w \in Instances : ArlingtonNextChunk(w)
    \/ \E w \in Instances : AustinChunk(w)
    \/ \E w \in Instances : ElPasoPermit(w)
    \/ \E w \in Instances : ScrapeReturns(w)
    \/ \E w \in Instances : ScrapeRaises(w)
    \/ Gather

SpecWorkers == InitWorkers /\ [][NextWorkers]_vars

----------------------------------------------------------------------------
(* The contact extractor on its own: _parse_contact_block applied to a      *)
(* block of up to MaxLines lines.                                           *)
MaxLines == 3

LineName == <<"A","n","n"," ","L","e","e">>
LineStreet == <<"1","2"," ","E","l","m"," ","S","t">>
LinePhone == <<"P","h","o","n","e",":"," ","9","1","5","-","5","5","5","-","0","1","0","1">>
LineWorkPhone == <<"W","O","R","K"," ","P","H","O","N","E",":"," ","(","9","1","5",")"," ","5","5","5","-","0","1","0","2">>
LineMobilePhone == <<"M","o","b","i","l","e"," ","P","h","o","n","e",":"," ","9","1","5","5","5","5","0","1","0","3">>
LineHomePhoneBlank == <<"H","o","m","e"," ","P","h","o","n","e",":"," ","n","/","a">>
LineEmail == <<"a","n","n","@","x",".","i","o">>
LineContractorLower == <<"c","o","n","t","r","a","c","t","o","r"," ","g","e","n","e","r","a","l"," ","7","7">>
LineLCCR == <<"L","C","C","R","9","9">>

ContactLines ==
    { LineName, LineStreet, LinePhone, LineWorkPhone, LineMobilePhone,
      LineHomePhoneBlank, LineEmail, LineContractorLower, LineLCCR }

ContactBlocks == { Join(NL, lines) : lines \in SeqsUpTo(ContactLines, MaxLines) } \cup {None}

InitContact ==
    /\ proc = "contact"
    /\ pc = "start"
    /\ values \in ContactBlocks
    /\ merged = None
    /\ input = NoTable
    /\ now = Today
    /\ output = NoTable
    /\ columns = {}
    /\ NoWrite /\ NoWorkers

ParseContact ==
    /\ proc = "contact"
    /\ pc = "start"
    /\ pc' = "done"
    /\ merged' = _parse_contact_block(values)
    /\ UNCHANGED <<proc, values, input, now, output, columns, output_path, disk, workers, overall_bar>>

NextContact == ParseContact

SpecContact == InitContact /\ [][NextContact]_vars

----------------------------------------------------------------------------
(* Zip-code normalisation, on a column of typed cells: a cell is null, an   *)
(* int, a float (whole part n and tenths d) or a str; the column's dtype is *)
(* float64 (floats and nulls only) or object.                               *)
ZNull == [kind |-> "null"]
ZInt(n) == [kind |-> "int", n |-> n]
ZFloat(n, d) == [kind |-> "float", n |-> n, d |-> d]
ZStr(s) == [kind |-> "str", s |-> s]

(* Series.fillna(0): the fill value takes the column's dtype *)
ZFillna0(col) ==
    [i \in DOMAIN col.cells |->
        IF col.cells[i].kind = "null"
        THEN (IF col.dtype = "float64" THEN ZFloat(0, 0) ELSE ZInt(0))
        ELSE col.cells[i]]

(* int(text): optional blanks around a non-empty run of digits *)
IsPyIntLiteral(s) == Strip(s) # <<>> /\ AllDigits(Strip(s))

(* Series.astype(int) raises on a str cell that is no integer literal *)
AstypeIntRaises(cells) ==
    \E i \in DOMAIN cells : cells[i].kind = "str" /\ ~IsPyIntLiteral(cells[i].s)

(* Series.astype(int) of one cell: a float is truncated *)
AstypeInt(cell) == IF cell.kind = "str" THEN StrToInt(Strip(cell.s)) ELSE cell.n

(* Series.astype(str) of one cell *)
AstypeStr(cell) ==
    CASE cell.kind = "int" -> IntToStr(cell.n)
      [] cell.kind = "float" -> IntToStr(cell.n) \o <<".">> \o IntToStr(cell.d)
      [] cell.kind = "str" -> cell.s

(* arlington lines 64-67, austin line 80: fillna(0).astype(int).astype(str).replace("0", "") *)
building_zip_code(col) ==
    TheOne({ [i \in DOMAIN cells |->
                TheOne({ IF txt = <<"0">> THEN <<>> ELSE txt : txt \in {IntToStr(AstypeInt(cells[i]))} })] :
             cells \in {ZFillna0(col)} })

(* austin lines 93-102: fillna(0), the regex replace (on str cells only),   *)
(* astype(str).replace("0", np.nan)                                         *)
contractor_zip(col) ==
    TheOne({ [i \in DOMAIN cells |->
                TheOne({ IF txt = <<"0">> THEN NaN ELSE txt :
                         txt \in {AstypeStr(IF cells[i].kind = "str"
                                            THEN ZStr(DigitsOnly(cells[i].s)) ELSE cells[i])} })] :
             cells \in {ZFillna0(col)} })

NormalizeBuildingZip ==
    /\ proc = "building_zip_code"
    /\ pc = "start"
    /\ IF AstypeIntRaises(ZFillna0(values))
       THEN pc' = "raised" /\ merged' = None
       ELSE pc' = "done" /\ merged' = building_zip_code(values)
    /\ UNCHANGED <<proc, values, input, now, output, columns, output_path, disk, workers, overall_bar>>

NormalizeContractorZip ==
    /\ proc = "contractor_zip"
    /\ pc = "start"
    /\ pc' = "done"
    /\ merged' = contractor_zip(values)
    /\ UNCHANGED <<proc, values, input, now, output, columns, output_path, disk, workers, overall_bar>>

ZipCells ==
    { ZNull, ZInt(0), ZInt(75201), ZFloat(75201, 0), ZFloat(0, 0),
      ZStr(<<>>), ZStr(<<"0">>), ZStr(<<"7","5","2","0","1">>), ZStr(<<"7","5","2","0","1",".","0">>), ZStr(<<"7","5","2","0","1","-","1","2","3","4">>) }

ZipColumns ==
    { [dtype |-> dt, cells |-> cells] :
        dt \in {"float64", "object"}, cells \in SeqsUpTo(ZipCells, MaxRows) }

InitZip ==
    /\ proc \in {"building_zip_code", "contractor_zip"}
    /\ pc = "start"
    /\ values \in { col \in ZipColumns :
                       /\ col.cells # <<>>
                       /\ col.dtype = "float64" =>
                             \A i \in DOMAIN col.cells : col.cells[i].kind \in {"float", "null"}
                       /\ (\A i \in DOMAIN col.cells : col.cells[i].kind = "float")
                             => col.dtype = "float64" }
    /\ merged = None
    /\ input = NoTable
    /\ now = Today
    /\ output = NoTable
    /\ columns = {}
    /\ NoWrite /\ NoWorkers

NextZip == NormalizeBuildingZip \/ NormalizeContractorZip

SpecZip == InitZip /\ [][NextZip]_vars

----------------------------------------------------------------------------
(* Claims about concatenate_values (checked under SpecConcat). *)

AllNull(vals) == \A i \in DOMAIN vals : isna(vals[i])

RECURSIVE SumLen(_)
SumLen(parts) == IF parts = <<>> THEN 0 ELSE Len(Head(parts)) + SumLen(Tail(parts))

C4_NullAsEmpty ==
    (pc = "done" /\ ~AllNull(values) /\ \E i \in DOMAIN values : isna(values[i])) =>
        SplitOn(merged, SEP) =
            [i \in DOMAIN values |-> IF isna(values[i]) THEN <<>> ELSE values[i]]

----------------------------------------------------------------------------
(* Claims about the El Paso group keys. *)

(* the four roles in the order the claims name them *)
Roles == << <<"applicant_first_name", "applicant_last_name">>,
            <<"licensed_professional_first_name", "licensed_professional_last_name">>,
            <<"third_party_first_name", "third_party_last_name">>,
            <<"owner_first_name", "owner_last_name">> >>

Elems(sq) == { sq[i] : i \in DOMAIN sq }

(* the rows labelled a and b were folded into the same output row *)
SameGroup(a, b) == \E o \in DOMAIN output : a \in Elems(output[o].members) /\ b \in Elems(output[o].members)

(* the role has both names present in the row handed to the key resolver *)
HasName(r, role) == notna(r[role[1]]) /\ notna(r[role[2]])
Nameless(r) == \A k \in DOMAIN Roles : ~HasName(r, Roles[k])

YieldingRoles(r) == { k \in DOMAIN Roles : notna(pair_key(r, Roles[k][1], Roles[k][2])) }

(* C5: the key of a row is the candidate of the first role, in the order     *)
(* applicant, licensed professional, third party, owner, that yields one     *)
(* (the synthetic key when none does), and two surviving rows are folded     *)
(* into the same output row exactly when their keys are equal.               *)
C5_PriorityKey ==
    pc = "done" =>
        LET t == ElPasoKeyed(input, now)
        IN /\ \A i \in DOMAIN t :
                IF YieldingRoles(t[i]) = {}
                THEN t[i].group_key_final = UNGROUPED \o IntToStr(t[i].idx)
                ELSE LET k == Min(YieldingRoles(t[i]))
                     IN t[i].group_key_final = pair_key(t[i], Roles[k][1], Roles[k][2])
           /\ \A i, j \in DOMAIN t :
                SameGroup(t[i].idx, t[j].idx) <=> t[i].group_key_final = t[j].group_key_final

(* a row keyed by a later role although an earlier role has a first name,   *)
(* merged with a row keyed by its applicant                                 *)
C5_Witness ==
    /\ pc = "done"
    /\ LET t == ElPasoKeyed(input, now)
       IN \E i, j \in DOMAIN t :
             /\ i # j
             /\ Min(YieldingRoles(t[i]) \cup {5}) = 1
             /\ Min(YieldingRoles(t[j]) \cup {5}) \in {3, 4}
             /\ Cardinality(YieldingRoles(t[j])) >= 1
             /\ notna(t[j].applicant_first_name)
             /\ SameGroup(t[i].idx, t[j].idx)

NonBlank(v) == notna(v) /\ Strip(v) # <<>>

(* C6: a role yields a candidate only if its first and its last name are    *)
(* present and non-blank, so no key begins or ends with '|' (as the claim   *)
(* states it; the code keeps whitespace-only owner names).                  *)
C6_NonBlankCandidate ==
    pc = "done" =>
        LET t == ElPasoKeyed(input, now)
        IN \A i \in DOMAIN t : \A k \in DOMAIN Roles :
              LET key == pair_key(t[i], Roles[k][1], Roles[k][2])
              IN notna(key) =>
                    /\ NonBlank(t[i][Roles[k][1]]) /\ NonBlank(t[i][Roles[k][2]])
                    /\ Head(key) # "|" /\ key[Len(key)] # "|"

(* C7: the synthetic key of a row without a candidate differs from the real *)
(* key of every other row, whatever the names are, and the two rows are     *)
(* never folded into one output row.                                        *)
C7_SyntheticNeverReal ==
    pc = "done" =>
        LET t == ElPasoKeyed(input, now)
        IN \A i, j \in DOMAIN t :
              (i # j /\ isna(group_key(t[i])) /\ notna(group_key(t[j]))) =>
                 /\ t[i].group_key_final # t[j].group_key_final
                 /\ ~SameGroup(t[i].idx, t[j].idx)

(* an ungrouped row beside a row whose owner is named 'UNGROUPED_' '<its index>' *)
C7_Witness ==
    /\ pc = "done"
    /\ LET t == ElPasoKeyed(input, now)
       IN \E i, j \in DOMAIN t :
             /\ i # j
             /\ isna(group_key(t[i]))
             /\ t[j].owner_first_name = UNGROUPED
             /\ t[j].owner_last_name = IntToStr(t[i].idx)
             /\ isna(t[j].applicant_first_name)
             /\ Len(output) = Len(t)

----------------------------------------------------------------------------
(* Claims about the aggregation (checked under SpecAggregate). *)

(* the table handed to the group-by, and whether the run groups at all *)
Grouped == proc = "el_paso" \/ (proc = "austin" /\ "contractor_phone" \in input.cols)
HandedToGroupBy ==
    IF proc = "el_paso" THEN ElPasoSurvivors(input, now) ELSE AustinSurvivors(input, now)
RawRowCount == IF proc = "el_paso" THEN Len(input) ELSE Len(input.rows)

RECURSIVE SumCounts(_)
SumCounts(t) == IF t = <<>> THEN 0 ELSE Head(t).permit_count + SumCounts(Tail(t))

(* C2: the sum of permit_count over the output rows equals the number of    *)
(* rows handed to the group-by; each of those rows is counted in exactly    *)
(* one output row, once.                                                    *)
C2_CountConservation ==
    (pc = "done" /\ Grouped) =>
        LET t == HandedToGroupBy
        IN /\ SumCounts(output) = Len(t)
           /\ \A i \in DOMAIN t :
                 Cardinality({ <<o, m>> \in (DOMAIN output) \X (1..MaxRows + 1) :
                                  /\ m \in DOMAIN output[o].members
                                  /\ output[o].members[m] = t[i].idx }) = 1
           /\ \A o \in DOMAIN output : output[o].permit_count = Len(output[o].members)

(* a filter removed a row and the rest was counted *)
C2_Witness ==
    /\ pc = "done"
    /\ Grouped
    /\ proc = "austin"
    /\ Len(output) >= 1
    /\ SumCounts(output) < RawRowCount

(* C8: the output rows appear in the order in which their keys are first    *)
(* seen in the filtered input, and within an output row the values follow   *)
(* input row order (as the claim states it; Austin's groupby sorts its      *)
(* keys).                                                                   *)
C8_FirstSeenOrder ==
    (pc = "done" /\ Grouped) =>
        /\ \A o, q \in DOMAIN output : o < q => output[o].members[1] < output[q].members[1]
        /\ \A o \in DOMAIN output : \A m, n \in DOMAIN output[o].members :
              m < n => output[o].members[m] < output[o].members[n]

----------------------------------------------------------------------------
(* Claims about the buckets (checked under SpecBuckets). *)

(* the table on which the bucket column has just been computed *)
BucketStage ==
    CASE proc = "el_paso" -> ElPasoBucketed(input, now)
      [] proc = "austin" -> AustinBucketed(input, now)
      [] proc = "arlington" -> ArlingtonBucketed(input, now)

(* the application date the input holds for the row labelled idx *)
InputDate(idx) ==
    CASE proc = "el_paso" -> input[idx + 1].application_date
      [] proc = "austin" -> input.rows[idx + 1].applieddate
      [] proc = "arlington" -> input.rows[idx + 1].application_date

(* the bucket the days since filing call for *)
BucketOfDays(n) ==
    IF 0 <= n /\ n <= 90 THEN recently_issued
    ELSE IF 91 <= n /\ n <= 180 THEN primary_backlog
    ELSE NaN

ExpectedBucket(d) ==
    IF isna(d) \/ ~IsDateText(d) THEN NaN ELSE BucketOfDays(now - Ordinal(ParseDate(d)))

(* the run computes buckets *)
HasBuckets == pc = "done" /\ (proc = "austin" => "applieddate" \in input.cols)

(* the buckets are those the day counts call for *)
BucketsAsStated ==
    HasBuckets => \A i \in DOMAIN BucketStage :
                     BucketStage[i].bucket = ExpectedBucket(InputDate(BucketStage[i].idx))

(* no row folded into the output has a null bucket *)
NullBucketsDropped ==
    HasBuckets => \A o \in DOMAIN output : \A m \in DOMAIN output[o].members :
                     notna(ExpectedBucket(InputDate(output[o].members[m])))

(* C9: in all three processors a row's bucket is recently_issued exactly    *)
(* when 0 <= days <= 90, primary_backlog exactly when 91 <= days <= 180 and *)
(* null otherwise, and rows with a null bucket never reach the output.      *)
C9_BucketBoundaries == BucketsAsStated /\ NullBucketsDropped

----------------------------------------------------------------------------
(* Claims about the El Paso record filters (checked under SpecElPasoFilter). *)

(* the index labels of a table's rows *)
Labels(t) == { t[i].idx : i \in DOMAIN t }

(* what the claim asks of the input row labelled idx *)
TypeAllowed(idx) ==
    /\ notna(input[idx + 1].record_type)
    /\ Lower(input[idx + 1].record_type) \in include_record_types
DateParses(idx) ==
    notna(input[idx + 1].application_date) /\ IsDateText(input[idx + 1].application_date)
HasPhone(idx) ==
    \E c \in PhoneCols : \E v \in {ElPasoExtractRow(input[idx + 1], idx)[c]} : notna(v) /\ v # <<>>
InBucketWithStatus(idx) ==
    /\ notna(ExpectedBucket(input[idx + 1].application_date))
    /\ notna(input[idx + 1].status) /\ input[idx + 1].status # <<>>

InputLabels == { i - 1 : i \in DOMAIN input }

(* the input rows folded into the output, none when the run raised *)
Folded == IF pc = "done"
          THEN UNION { Elems(output[o].members) : o \in DOMAIN output }
          ELSE {}

(* the filters run in the stated order and each only removes rows *)
FiltersInOrder ==
    pc = "done" =>
        /\ Labels(ElPasoTyped(input)) = { i \in InputLabels : TypeAllowed(i) }
        /\ Labels(ElPasoDated(input)) = { i \in Labels(ElPasoTyped(input)) : DateParses(i) }
        /\ Labels(ElPasoPhoned(input)) = { i \in Labels(ElPasoDated(input)) : HasPhone(i) }
        /\ Labels(ElPasoSurvivors(input, now))
              = { i \in Labels(ElPasoPhoned(input)) : InBucketWithStatus(i) }

(* C10: the filters run in the order record type, date, phone, bucket and   *)
(* status, each only removes rows, and the rows folded into the output are  *)
(* exactly the input rows that pass all four.                               *)
C10_FilterExact ==
    /\ FiltersInOrder
    /\ pc # "start" =>
          Folded = { i \in InputLabels :
                        TypeAllowed(i) /\ DateParses(i) /\ HasPhone(i) /\ InBucketWithStatus(i) }

----------------------------------------------------------------------------
(* Claims about the status filter (checked under SpecBuckets). *)

(* the status the input holds for the row labelled idx *)
InputStatus(idx) ==
    CASE proc = "el_paso" -> input[idx + 1].status
      [] proc = "austin" -> input.rows[idx + 1].status_current
      [] proc = "arlington" -> input.rows[idx + 1].status

(* C11: in every processor an input row without a status value is never    *)
(* present in, or folded into, the output.                                  *)
C11_NullStatusDropped ==
    pc = "done" => \A o \in DOMAIN output : \A m \in DOMAIN output[o].members :
                      notna(InputStatus(output[o].members[m]))

----------------------------------------------------------------------------
(* Claims about the Arlington phone count (checked under SpecArlingtonPhones). *)

(* the entries of a contact cell of the input whose number has exactly 10 digits *)
TenDigitEntries(cell) ==
    IF cell.is_list
    THEN { k \in DOMAIN cell.items :
             /\ cell.items[k].phone_number \notin {None, <<>>}
             /\ Cardinality({ j \in DOMAIN cell.items[k].phone_number :
                                 cell.items[k].phone_number[j] \in Elems(Digits) }) = 10 }
    ELSE {}

(* the phone count the claim gives the input row labelled idx *)
StatedPhoneCount(idx) ==
    Cardinality(TenDigitEntries(input.rows[idx + 1].associated_people))
    + Cardinality(TenDigitEntries(input.rows[idx + 1].sub_contractors))

(* C12: phone_count is the number of entries of the two contact lists with  *)
(* a 10-digit phone number, and a row without any such entry is never in    *)
(* the output, whichever of the two contact columns the table has.          *)
C12_PhoneCountFilter ==
    (pc = "done" /\ proc = "arlington") =>
        \A o \in DOMAIN output :
            /\ {"associated_people", "sub_contractors"} \subseteq input.cols
                  => output[o].phone_count = StatedPhoneCount(output[o].idx)
            /\ StatedPhoneCount(output[o].idx) > 0

----------------------------------------------------------------------------
(* Claims about merging in Arlington (checked under SpecArlingtonContacts). *)

(* the applicant's name and the sub-contractor info of the input row labelled idx *)
ApplicantName(idx) == input.rows[idx + 1].associated_people.items[1].name
ContractorInfo(idx) == map_sub_contractors(input.rows[idx + 1].sub_contractors.items)

(* the table holds exactly two rows, both pass the filters, with the same   *)
(* applicant and two distinct sub-contractor infos                          *)
TwoRowsOneContact ==
    /\ pc = "done" /\ proc = "arlington"
    /\ Len(input.rows) = 2
    /\ Len(ArlingtonSurvivors(input, now)) = 2
    /\ ApplicantName(0) = ApplicantName(1)
    /\ ContractorInfo(0) # ContractorInfo(1)
    /\ ContractorInfo(0) # <<>> /\ ContractorInfo(1) # <<>>

(* C13: two rows with the same applicant name and sub-contractor infos A    *)
(* and B give one output row with sub_contractors_info A <AND> B and        *)
(* permit_count 2.                                                          *)
C13_SameContactMerged ==
    TwoRowsOneContact =>
        /\ Len(output) = 1
        /\ output[1].sub_contractors_info = ContractorInfo(0) \o SEP \o ContractorInfo(1)
        /\ "permit_count" \in DOMAIN output[1]
        /\ output[1].permit_count = 2

----------------------------------------------------------------------------
(* Claims about absent columns (checked under SpecColumns). *)

(* C14: process completes without raising on a table that lacks any subset *)
(* of the expected columns.                                                 *)
C14_AbsentColumnsTolerated == pc # "raised"

----------------------------------------------------------------------------
(* Claims about dates that do not parse (checked under SpecBuckets). *)

(* the input row labelled idx holds a date text that is no date *)
Unparseable(idx) == notna(InputDate(idx)) /\ ~IsDateText(InputDate(idx))

(* C15: a row whose application_date cannot be parsed never makes process   *)
(* raise; the row is dropped and the other rows are processed.              *)
C15_BadDateDegrades ==
    /\ pc # "raised"
    /\ pc = "done" => \A o \in DOMAIN output : \A m \in DOMAIN output[o].members :
                         ~Unparseable(output[o].members[m])

----------------------------------------------------------------------------
(* Claims about zip-code normalisation (checked under SpecZip). *)

(* a zip input that stands for no zip code: null, 0 or the empty string *)
NoZip(cell) ==
    \/ cell.kind = "null"
    \/ cell.kind \in {"int", "float"} /\ cell.n = 0 /\ (cell.kind = "float" => cell.d = 0)
    \/ cell.kind = "str" /\ cell.s = <<>>

(* C16: zip normalisation never raises and yields a digit-only string,      *)
(* the empty string for null, 0 and the empty string.                       *)
C16_ZipTotal ==
    /\ pc # "raised"
    /\ pc = "done" => \A i \in DOMAIN merged :
                         /\ merged[i] \notin Nulls
                         /\ AllDigits(merged[i])
                         /\ NoZip(values.cells[i]) => merged[i] = <<>>

----------------------------------------------------------------------------
(* Claims about the date format of the output (checked under SpecBuckets). *)

(* a text in DD/MM/YYYY form *)
IsDMYText(s) ==
    /\ Len(s) = 10
    /\ s[3] = "/" /\ s[6] = "/"
    /\ \A k \in {1, 2, 4, 5, 7, 8, 9, 10} : s[k] \in Elems(Digits)
    /\ IsDateText(SubSeq(s, 4, 6) \o SubSeq(s, 1, 3) \o SubSeq(s, 7, 10))

(* the application date of the input row labelled idx, written DD/MM/YYYY *)
InputDateDMY(idx) ==
    SubSeq(InputDate(idx), 4, 6) \o SubSeq(InputDate(idx), 1, 3) \o SubSeq(InputDate(idx), 7, 10)

(* the date cell of an output row: empty or null, or the DD/MM/YYYY dates   *)
(* of the rows folded into it, joined by the separator                      *)
DateCellOK(row) ==
    \/ row.application_date \in Nulls \cup {<<>>}
    \/ \E parts \in {SplitOn(row.application_date, SEP)} :
          /\ Len(parts) = Len(row.members)
          /\ \A k \in DOMAIN parts :
                IsDMYText(parts[k]) /\ parts[k] = InputDateDMY(row.members[k])

(* C17: every date field of the output is empty or null, or a DD/MM/YYYY    *)
(* string, also after aggregation.                                          *)
C17_OutputDatesDMY ==
    pc = "done" => \A o \in DOMAIN output :
                      "application_date" \in DOMAIN output[o] => DateCellOK(output[o])

----------------------------------------------------------------------------
(* Claims about the contact extractor (checked under SpecContact). *)

(* a line that is a phone or e-mail label line, an e-mail line or           *)
(* contractor-registration boilerplate, in any letter case                  *)
NonAddressLine(ln) ==
    \/ IsLabelLine(ln)
    \/ HasEmail(ln)
    \/ MatchCI(ln, ContractorGeneral)
    \/ MatchCI(ln, LCCR)

(* the line as it would stand in the address, and as it would stand as the name *)
AsAddressPart(ln) == Lower(ln)
AsName(ln) == Title(Join(<<" ">>, SplitWords(ln)))

(* the full name of the entity *)
FullName(e) ==
    IF e.first_name = None THEN <<>>
    ELSE IF e.last_name = None THEN e.first_name
    ELSE e.first_name \o <<" ">> \o e.last_name

(* C18: no phone label line, e-mail line or contractor-registration line,   *)
(* in any letter case, is part of the address, the name or the company.     *)
C18_AddressExcludesLabels ==
    pc = "done" =>
        \A ln \in Elems(_split_lines(values)) :
            NonAddressLine(ln) =>
                /\ merged.address = None
                      \/ AsAddressPart(ln) \notin Elems(SplitOn(merged.address, <<",", " ">>))
                /\ merged.company # ln
                /\ FullName(merged) # AsName(ln)

(* the positions of the text where label stands, in any letter case *)
Occurrences(s, label) ==
    { p \in 1..Len(s) : p + Len(label) - 1 <= Len(s)
                        /\ Lower(SubSeq(s, p, p + Len(label) - 1)) = Lower(label) }

LabelHome == <<"H","o","m","e"," ","P","h","o","n","e",":">>
LabelWork == <<"W","o","r","k"," ","P","h","o","n","e",":">>
LabelMobile == <<"M","o","b","i","l","e"," ","P","h","o","n","e",":">>
LabelPhone == <<"P","h","o","n","e",":">>

(* the text holds a 'Phone:' label that is not the end of a Home, Work or   *)
(* Mobile label                                                             *)
HasBarePhoneLabel(s) ==
    \E p \in Occurrences(s, LabelPhone) :
        \A kind \in {LabelHome, LabelWork, LabelMobile} :
            (p + Len(LabelPhone) - Len(kind)) \notin Occurrences(s, kind)

(* a phone field: absent, or a non-empty string of digits *)
DigitsOrAbsent(v) == v = None \/ (v # <<>> /\ AllDigits(v))

(* C19: each phone kind comes only from its own label, the plain phone only *)
(* from a bare 'Phone:' label; every value is digits only, never empty.     *)
C19_PhoneKindsIndependent ==
    (pc = "done" /\ values # None) =>
        /\ DigitsOrAbsent(merged.home) /\ DigitsOrAbsent(merged.work)
        /\ DigitsOrAbsent(merged.mobile) /\ DigitsOrAbsent(merged.phone)
        /\ merged.home # None => Occurrences(values, LabelHome) # {}
        /\ merged.work # None => Occurrences(values, LabelWork) # {}
        /\ merged.mobile # None => Occurrences(values, LabelMobile) # {}
        /\ merged.phone # None => HasBarePhoneLabel(values)

----------------------------------------------------------------------------
(* Claims about repeated runs (checked under SpecElPasoTwice). *)

(* C20: two runs of the El Paso processor on equal input tables return      *)
(* equal output tables, whenever each run happens.                          *)
C20_SameInputSameOutput == pc = "done2" => output = merged

----------------------------------------------------------------------------
(* Claims about the caller's table (checked under SpecColumns). *)

(* C21: a call of process, whether it returns or raises, leaves the         *)
(* caller's table with the columns and the cell values it had before.       *)
C21_InputUntouched ==
    [][(pc = "start" /\ pc' # "start") => (input' = input /\ columns' = columns)]_vars

----------------------------------------------------------------------------
(* Claims about the final write (checked under SpecPersist). *)

StatedFormat(path) ==
    IF EndsWith(Lower(path), DotParquet) \/ EndsWith(Lower(path), DotPq) THEN "parquet" ELSE "csv"

UntouchedDisk == disk.opened = <<>> /\ (disk = NoDisk \/ FileAt(output_path) = PreviousFile)

(* C22: the table is written exactly once if and only if an output path is  *)
(* supplied, after the stages have finished, as Parquet when the lower-     *)
(* cased path ends in .parquet or .pq and as CSV otherwise; the file holds  *)
(* the returned table; with no path nothing is written.                     *)
C22_WrittenOnceByExtension ==
    /\ pc \in {"start", "persist", "raised"} => UntouchedDisk
    /\ (pc = "done" /\ output_path = None) => disk = NoDisk
    /\ (pc = "done" /\ output_path # None) =>
          /\ disk.opened = <<[path |-> output_path, format |-> StatedFormat(output_path)]>>
          /\ FileAt(output_path) = [format |-> StatedFormat(output_path), rows |-> output,
                                    complete |-> TRUE]

C22_Witness ==
    /\ pc = "done"
    /\ output_path = OutUpperPq
    /\ Len(output) > 0
    /\ FileAt(output_path).format = "parquet"

(* C23: at every point of a run the destination is untouched (absent or     *)
(* with its previous content) or holds the complete final table, and a      *)
(* failed write raises.                                                     *)
C23_WriteAllOrNothing ==
    output_path # None =>
       \/ ~Exists(output_path)
       \/ FileAt(output_path) = PreviousFile
       \/ FileAt(output_path).complete /\ pc = "done" /\ FileAt(output_path).rows = output

----------------------------------------------------------------------------
(* Claims about persist_result (checked under SpecPersistResult). *)

(* C24: under every interleaving of the writers, the final path of a permit *)
(* is absent or holds the previous payload or the whole payload of one of   *)
(* the writers of that permit, never a part or a mix; no writer raises.     *)
C24_PersistAtomic ==
    /\ \A id \in PermitIds :
          Exists(final_path(id)) =>
             \/ FileAt(final_path(id)) = PreviousPayload
             \/ \E w \in Writers : workers[w].id = id /\ FileAt(final_path(id)) = payload(w)
    /\ \A w \in Writers : workers[w].pc \in {"start", "writing", "returned"}

C24_Witness ==
    /\ Cardinality(Writers) = 2
    /\ workers[1].id = workers[2].id
    /\ workers[1].pc = "writing" /\ Len(FileAt(tmp_name(workers[1].id, 1))) = 1
    /\ workers[2].pc = "returned"
    /\ Exists(final_path(workers[2].id))
    /\ FileAt(final_path(workers[2].id)) = payload(2)

----------------------------------------------------------------------------
(* Claims about date ranges and work lists (checked under SpecChunking). *)

DaysOf(chunk) == chunk[2] - chunk[1] + 1

(* the chunks are non-empty, start at start, end at end, and each starts the *)
(* day after the previous one ends                                          *)
Partition(chunks, start, end) ==
    /\ chunks # <<>>
    /\ chunks[1][1] = start
    /\ chunks[Len(chunks)][2] = end
    /\ \A i \in DOMAIN chunks : chunks[i][1] <= chunks[i][2]
    /\ \A i \in 1..(Len(chunks) - 1) : chunks[i + 1][1] = chunks[i][2] + 1

(* C25: for start_d <= end_d and parts >= 1, iter_range_by_parts returns    *)
(* min(parts, days) sub-ranges that partition the range in order, with      *)
(* lengths differing by at most one day; parts <= 0 raises ValueError.      *)
C25_RangeByParts ==
    (pc = "done" /\ proc = "iter_range_by_parts") =>
       /\ values.parts <= 0 => merged.raises = "ValueError"
       /\ (values.parts >= 1 /\ values.start <= values.end) =>
             /\ merged.raises = ""
             /\ Len(merged.value) = Smaller(values.parts, values.end - values.start + 1)
             /\ Partition(merged.value, values.start, values.end)
             /\ \A i, j \in DOMAIN merged.value :
                   DaysOf(merged.value[i]) - DaysOf(merged.value[j]) <= 1

(* the number of chunks the scraper makes of the range, when it makes any *)
ScraperChunks == _iter_chunks(values.start, values.end, values.days_per_step)

(* C26: for start <= end and days_per_step None, -1, 0 or positive,         *)
(* compute_chunk_count and calc_days_between both equal the number of       *)
(* chunks _iter_chunks returns.                                             *)
C26_ChunkCountsAgree ==
    (/\ pc = "done"
     /\ proc \in {"compute_chunk_count", "calc_days_between"}
     /\ values.start <= values.end
     /\ (values.days_per_step.is_none \/ values.days_per_step.n >= -1)) =>
       /\ ScraperChunks.raises = ""
       /\ merged = Returns(Len(ScraperChunks.value))

(* C27: for start <= end and every integer days_per_step, _iter_chunks      *)
(* returns chunks in ascending order that partition [start, end];           *)
(* start > end raises ValueError.                                           *)
C27_ChunksCoverRange ==
    (pc = "done" /\ proc = "_iter_chunks") =>
       /\ values.start > values.end => merged.raises = "ValueError"
       /\ values.start <= values.end =>
             /\ merged.raises = ""
             /\ Partition(merged.value, values.start, values.end)

RECURSIVE Flatten(_)
Flatten(slices) == IF slices = <<>> THEN <<>> ELSE Head(slices) \o Flatten(Tail(slices))

(* C30: chunk_evenly returns max(1, chunks) contiguous slices that          *)
(* concatenate to the list, sizes differing by at most one and never        *)
(* growing; run_details hands a non-empty list out in                       *)
(* max(1, min(instances, len)) slices, none of them empty.                  *)
C30_EveryPermitOneWorker ==
    /\ (pc = "done" /\ proc = "chunk_evenly") =>
          /\ Len(merged) = Max(1, values.chunks)
          /\ Flatten(merged) = values.items
          /\ \A i, j \in DOMAIN merged : i < j => Len(merged[i]) - Len(merged[j]) \in {0, 1}
    /\ (pc = "done" /\ proc = "run_details") =>
          /\ Len(merged) = Max(1, Smaller(values.chunks, Len(values.items)))
          /\ Flatten(merged) = values.items
          /\ values.items # <<>> => \A i \in DOMAIN merged : merged[i] # <<>>

C30_Witness ==
    /\ pc = "done"
    /\ proc = "run_details"
    /\ Len(values.items) = 5
    /\ values.chunks = 3
    /\ Len(merged[1]) = 2 /\ Len(merged[3]) = 1

----------------------------------------------------------------------------
(* Claims about the progress callbacks (checked under SpecWorkers). *)

CallbacksOf(w) == SumOver(workers[w].calls, "success") + SumOver(workers[w].calls, "failed")

(* C28: every chunk or permit a scraper attempts triggers exactly one       *)
(* progress callback, a success or a failure and never both; when the loop  *)
(* ends, the callbacks made are as many as the total they announced.        *)
C28_OneCallbackPerItem ==
    \A w \in Instances :
       /\ \A k \in DOMAIN workers[w].calls :
             (k <= workers[w].i \/ workers[w].pc \in {"returned", "raised"}) =>
                workers[w].calls[k].success + workers[w].calls[k].failed = 1
       /\ (workers[w].pc = "returned" /\ workers[w].announced_total) =>
             CallbacksOf(w) = workers[w].items

(* C29: each worker adds its announced total to the overall bar at most     *)
(* once, the overall bar's progress is the sum of the workers' success and  *)
(* failed counts, a finished worker that announced a total has success +    *)
(* failed equal to it, and the totals at the end are the sums over the      *)
(* workers.                                                                 *)
C29_BarsAddUp ==
    /\ overall_bar.total =
          SumOver([w \in Instances |->
                     [t |-> IF workers[w].announced_total THEN workers[w].items ELSE 0]], "t")
    /\ overall_bar.n = SumOver(workers, "success_chunks_total") + SumOver(workers, "failed_chunks_total")
    /\ \A w \in Instances :
          (workers[w].pc \in {"returned", "raised"} /\ workers[w].announced_total) =>
             workers[w].success_chunks_total + workers[w].failed_chunks_total = workers[w].items
    /\ pc = "done" =>
          /\ merged.success = SumOver(workers, "success_chunks_total")
          /\ merged.failed = SumOver(workers, "failed_chunks_total")

====
